---- MODULE Spec2Model ----
(***************************************************************************)
(* The KBBI dictionary lookup of backend/flask-app/api/kbbi.py: the        *)
(* normalizer, the corpus ingestion and the two indices, the resolution    *)
(* chain of kbbi_cek (remote, word-db, built-in, offline), the result      *)
(* cache and the per-client rate limiter, with kbbi_reload and kbbi_stats. *)
(*                                                                         *)
(* Text is a sequence of one-character strings, so that normalization,     *)
(* prefixes and sorting are computed character by character.               *)
(***************************************************************************)
EXTENDS Integers, Sequences, FiniteSets, TLC

VARIABLES
    KBBI_ONLINE_AVAILABLE,  \* kbbi.py:45-49, fixed when the module is imported
    KBBI_SIMPLE_AVAILABLE,  \* kbbi.py:28-31, fixed when the module is imported
    now,                    \* the clock read by time.time()
    _RATE_BUCKET,           \* ip -> timestamps of the admitted requests
    _KBBI_CACHE,            \* key_norm -> [ts, payload]
    _kbbi_index,            \* None or the offline index
    _KBBI_WORD_INDEX,       \* None or [by_key, by_lema, orig_key, raw]
    partFiles,              \* which corpus KBBI_FILE_GLOB matches on disk (see Parts)
    wordDbFiles,            \* which shards KBBI_WORD_DB_GLOB matches on disk (see WordDb)
    last,                   \* the last operation: its inputs, what it consulted, its response
    resolved,               \* history: key -> time and payload of its latest resolution
    cleared,                \* history: the keys the last reload removed, until the next lookup
    admitted,               \* history: ip -> times of its admitted requests still in the window
    calls,                  \* worker thread -> where its call of a builder stands, its locals
    builds                  \* history: invalidations, corpus loads since, calls started

vars == <<KBBI_ONLINE_AVAILABLE, KBBI_SIMPLE_AVAILABLE, now, _RATE_BUCKET, _KBBI_CACHE,
          _kbbi_index, _KBBI_WORD_INDEX, partFiles, wordDbFiles, last, resolved,
          cleared, admitted, calls, builds>>

None == [t |-> "none"]

(***************************************************************************)
(* Characters.  CharOrder lists the characters of the model in code point  *)
(* order, which is the order sorted() and str comparison use.              *)
(***************************************************************************)
CharOrder == <<"\t", " ", ".", "1", "B", "R", "_",
               "a", "b", "g", "h", "i", "j", "k", "m", "n", "p", "r", "u", "z">>

Whitespace == {"\t", " "}

UpperCase == [B |-> "b", R |-> "r"]

WordChars == {"1", "B", "R", "_", "a", "b", "g", "h", "i", "j", "k", "m", "n", "p", "r", "u", "z"}

Ord(c) == CHOOSE i \in 1..Len(CharOrder) : CharOrder[i] = c

Min(S) == CHOOSE x \in S : \A y \in S : x <= y

Max(S) == CHOOSE x \in S : \A y \in S : x >= y

\* str.lower()
lower(s) == [i \in 1..Len(s) |-> IF s[i] \in DOMAIN UpperCase THEN UpperCase[s[i]] ELSE s[i]]

\* str.strip()
strip(s) ==
    LET idx == {i \in 1..Len(s) : s[i] \notin Whitespace}
    IN  IF idx = {} THEN <<>> ELSE SubSeq(s, Min(idx), Max(idx))

\* s[:n]
Prefix(s, n) == SubSeq(s, 1, IF Len(s) < n THEN Len(s) ELSE n)

\* s.startswith(p)
startswith(s, p) == Len(p) <= Len(s) /\ SubSeq(s, 1, Len(p)) = p

\* s < t in str comparison (code point order, a proper prefix first)
RECURSIVE StrLess(_, _)
StrLess(s, t) ==
    IF t = <<>> THEN FALSE
    ELSE IF s = <<>> THEN TRUE
    ELSE IF Head(s) = Head(t) THEN StrLess(Tail(s), Tail(t))
    ELSE Ord(Head(s)) < Ord(Head(t))

\* sorted(S) of a set of strings
RECURSIVE sorted(_)
sorted(S) ==
    IF S = {} THEN <<>>
    ELSE LET m == CHOOSE x \in S : \A y \in S \ {x} : StrLess(x, y)
         IN  <<m>> \o sorted(S \ {m})

\* the elements of a sequence
Range(s) == {s[i] : i \in 1..Len(s)}

\* x in list
Contains(s, x) == \E i \in 1..Len(s) : s[i] = x

\* line 78 left out: the punctuation stays
RemovePunctuation_Kept(s) == s

\* re.sub(r"[^\w\s]+", "", s)
RemovePunctuation(s) == SelectSeq(s, LAMBDA c : c \in WordChars \/ c \in Whitespace)

\* s.replace("_", " ")
UnderscoreToSpace(s) == [i \in 1..Len(s) |-> IF s[i] = "_" THEN " " ELSE s[i]]

\* re.sub(r"\s+", " ", s)
RECURSIVE CollapseWhitespace(_)
CollapseWhitespace(s) ==
    IF s = <<>> THEN <<>>
    ELSE IF Head(s) \in Whitespace
         THEN IF Len(s) > 1 /\ s[2] \in Whitespace
              THEN CollapseWhitespace(Tail(s))
              ELSE <<" ">> \o CollapseWhitespace(Tail(s))
         ELSE <<Head(s)>> \o CollapseWhitespace(Tail(s))

\* lines 79 and 80 in the other order: the whitespace is collapsed before the
\* underscores become spaces
_kbbi_normalize_CollapseFirst(s) ==
    UnderscoreToSpace(strip(CollapseWhitespace(RemovePunctuation(lower(strip(s))))))

\* kbbi.py:68-81
_kbbi_normalize(s) ==
    strip(CollapseWhitespace(UnderscoreToSpace(RemovePunctuation(lower(strip(s))))))

(***************************************************************************)
(* Parsed JSON.  A value is a record [t, v]: t is the Python type of the   *)
(* parsed value, v its content: the characters of a str, the decimal       *)
(* digits of a number, the items of a list, the (key, value) pairs of a    *)
(* dict in document order.  None is both JSON null and dict.get's default. *)
(***************************************************************************)
JStr(s) == [t |-> "str", v |-> s]

JNum(digits) == [t |-> "num", v |-> digits]

JList(items) == [t |-> "list", v |-> items]

JDict(pairs) == [t |-> "dict", v |-> pairs]

\* bool(x)
Truthy(x) ==
    CASE x.t = "none" -> FALSE
      [] x.t = "num" -> x.v # <<"0">>
      [] OTHER -> x.v # <<>>

\* obj.get(key) of a dict
get(obj, key) ==
    LET js == {j \in 1..Len(obj.v) : obj.v[j][1] = key}
    IN  IF js = {} THEN None ELSE obj.v[Max(js)][2]

\* key in obj
HasKey(obj, key) == \E j \in 1..Len(obj.v) : obj.v[j][1] = key

\* a or b, a or b or c
Or2(a, b) == IF Truthy(a) THEN a ELSE b

Or3(a, b, c) == Or2(a, Or2(b, c))

\* str(x) of a str or a number, the two kinds of scalar the corpora hold
str(x) == IF x.t \in {"str", "num"} THEN x.v ELSE <<"N", "o", "n", "e">>

(***************************************************************************)
(* kbbi_simple.py: the built-in corpus.  The definition texts and the      *)
(* examples are abbreviated; the keys and the shape are the source's.      *)
(***************************************************************************)
W_pijar == <<"p", "i", "j", "a", "r">>

W_rumah == <<"r", "u", "m", "a", "h">>

W_buku == <<"b", "u", "k", "u">>

Sense(kelas, deskripsi) ==
    [kelas |-> kelas, deskripsi |-> deskripsi, contoh |-> <<>>, sinonim |-> <<>>,
     antonim |-> <<>>]

KBBI_DATA ==
    [k \in {W_pijar, W_rumah, W_buku} |->
        CASE k = W_pijar ->
               [lema |-> <<W_pijar>>,
                definisi |-> << <<"[", "n", "]", " ", "b", "a", "r", "a">>,
                                <<"[", "a", "]", " ", "b", "e", "r", "p", "i", "j", "a", "r">> >>,
                entri |-> << [lema |-> JStr(W_pijar),
                              makna |-> << Sense(<<"n">>, <<"b", "a", "r", "a">>),
                                           Sense(<<"a">>, <<"b", "e", "r", "p", "i", "j", "a", "r">>) >>] >>]
          [] k = W_rumah ->
               [lema |-> <<W_rumah>>,
                definisi |-> << <<"[", "n", "]", " ", "h", "u", "n", "i", "a", "n">>,
                                <<"[", "n", "]", " ", "b", "a", "n", "g", "u", "n", "a", "n">> >>,
                entri |-> << [lema |-> JStr(W_rumah),
                              makna |-> << Sense(<<"n">>, <<"h", "u", "n", "i", "a", "n">>) >>] >>]
          [] k = W_buku ->
               [lema |-> <<W_buku>>,
                definisi |-> << <<"[", "n", "]", " ", "k", "i", "t", "a", "b">> >>,
                entri |-> << [lema |-> JStr(W_buku),
                              makna |-> << Sense(<<"n">>, <<"k", "i", "t", "a", "b">>) >>] >>]]

normalize_kata(kata) == strip(lower(kata))

cari_kata(kata) ==
    IF normalize_kata(kata) \in DOMAIN KBBI_DATA THEN KBBI_DATA[normalize_kata(kata)] ELSE None

get_saran(kata) ==
    Prefix(sorted({k \in DOMAIN KBBI_DATA : startswith(k, Prefix(normalize_kata(kata), 2))}), 5)

(***************************************************************************)
(* _kbbi_load_all_parts: the ingestion of the offline corpus.  A part file *)
(* is [readable, docs]: whether open() and read() succeed, and the JSON    *)
(* documents raw_decode recovers from its text, in order.  The identity of *)
(* a parsed object (id()) is its path: the index of its file and document  *)
(* and the positions leading to it.                                        *)
(***************************************************************************)
_multi_json_objects(file) == file.docs

_is_entry(obj) ==
    /\ obj.t = "dict"
    /\ HasKey(obj, "makna")
    /\ \E k \in {"nama", "lema", "kata"} : HasKey(obj, k)

ContainerKeys == <<"entri", "entries">>

WrapperKeys == <<"data", "daftar", "list", "result", "results">>

KeyPos(obj, key) == Max({j \in 1..Len(obj.v) : obj.v[j][1] = key})

RECURSIVE Flatten(_)
Flatten(ss) == IF ss = <<>> THEN <<>> ELSE Head(ss) \o Flatten(Tail(ss))

\* The objects _extract_entries(obj, out_list) tries to append, in the order it tries
\* them, each with its identity.
RECURSIVE Candidates(_, _)
Candidates(obj, path) ==
    IF obj.t = "dict"
    THEN \* for key in ("entri", "entries"): the dict items of a list value
         Flatten([n \in 1..Len(ContainerKeys) |->
             IF get(obj, ContainerKeys[n]).t = "list"
             THEN Flatten([i \in 1..Len(get(obj, ContainerKeys[n]).v) |->
                      IF get(obj, ContainerKeys[n]).v[i].t = "dict"
                      THEN << <<path \o <<KeyPos(obj, ContainerKeys[n]), i>>,
                                get(obj, ContainerKeys[n]).v[i]>> >>
                      ELSE <<>>])
             ELSE <<>>])
         \* for key in ("data", "daftar", "list", "result", "results"): recurse into
         \* the items of a list value
         \o Flatten([n \in 1..Len(WrapperKeys) |->
             IF get(obj, WrapperKeys[n]).t = "list"
             THEN Flatten([i \in 1..Len(get(obj, WrapperKeys[n]).v) |->
                      Candidates(get(obj, WrapperKeys[n]).v[i],
                                 path \o <<KeyPos(obj, WrapperKeys[n]), i>>)])
             ELSE <<>>])
         \* for k, v in obj.items(): recurse into the values of the other keys
         \o Flatten([j \in 1..Len(obj.v) |->
             IF obj.v[j][1] \notin (Range(ContainerKeys) \cup Range(WrapperKeys))
             THEN Candidates(obj.v[j][2], path \o <<j>>)
             ELSE <<>>])
         \* as a last resort, the dict itself if it looks like an entry
         \o (IF _is_entry(obj) THEN << <<path, obj>> >> ELSE <<>>)
    ELSE IF obj.t = "list"
    THEN Flatten([i \in 1..Len(obj.v) |-> Candidates(obj.v[i], path \o <<i>>)])
    ELSE <<>>

\* if id(it) not in appended_ids: out_list.append(it); appended_ids.add(id(it))
AppendOnce(cands) ==
    LET first == {i \in 1..Len(cands) : \A j \in 1..(i - 1) : cands[j][1] # cands[i][1]}
    IN  [c \in 1..Cardinality(first) |->
            cands[CHOOSE i \in first : Cardinality({j \in first : j < i}) = c - 1][2]]

\* _extract_entries(data, entries) for every document of every readable file
_kbbi_load_all_parts(files) ==
    AppendOnce(Flatten([p \in 1..Len(files) |->
        IF files[p].readable
        THEN Flatten([d \in 1..Len(_multi_json_objects(files[p])) |->
                 Candidates(_multi_json_objects(files[p])[d], <<p, d>>)])
        ELSE <<>>]))

(***************************************************************************)
(* _kbbi_build_index: the offline index.                                   *)
(***************************************************************************)
\* the first of the given keys whose value is a str, stripped; "" when the first
\* str is blank; None (here <<>>) when no value is a str
RECURSIVE FirstStr(_, _, _)
FirstStr(entry, keys, n) ==
    IF n > Len(keys) THEN <<>>
    ELSE IF get(entry, keys[n]).t = "str" THEN strip(get(entry, keys[n]).v)
    ELSE FirstStr(entry, keys, n + 1)

\* the first of the given keys whose value is a str that is not blank, stripped
RECURSIVE FirstNonBlank(_, _, _)
FirstNonBlank(obj, keys, n) ==
    IF n > Len(keys) THEN <<>>
    ELSE IF get(obj, keys[n]).t = "str" /\ strip(get(obj, keys[n]).v) # <<>>
         THEN strip(get(obj, keys[n]).v)
    ELSE FirstNonBlank(obj, keys, n + 1)

\* kbbi.py:189-208: the lemma of an entry, <<>> when the entry is skipped
EntryNama(entry) ==
    LET raw_nama == get(entry, "nama")
        nama == IF raw_nama.t = "str" THEN strip(raw_nama.v)
                ELSE FirstStr(entry, <<"lema", "kata">>, 1)
    IN  IF nama = <<>> /\ raw_nama.t = "dict"
        THEN FirstNonBlank(raw_nama, <<"text", "value", "nama">>, 1)
        ELSE nama

\* kbbi.py:225-230: the value whose .strip() gives the class label of a sense
LabelValue(m) ==
    LET klist == Or2(get(m, "kelas"), JList(<<>>))
    IN  IF klist.t = "list" /\ klist.v # <<>> /\ klist.v[1].t = "dict"
        THEN Or3(get(klist.v[1], "kode"), get(klist.v[1], "nama"), JStr(<<>>))
        ELSE JStr(<<>>)

\* f"[{label}] {st}" if label else st
FormatDef(label, st) == IF label # <<>> THEN <<"[">> \o label \o <<"]", " ">> \o st ELSE st

\* kbbi.py:218-242: the definitions one item of makna contributes
MaknaDefs(m) ==
    IF m.t # "dict"
    THEN IF strip(str(m)) # <<>> THEN <<strip(str(m))>> ELSE <<>>
    ELSE LET label == strip(LabelValue(m).v)
             sub == Or2(Or3(get(m, "submakna"), get(m, "arti"), get(m, "definisi")), JList(<<>>))
         IN  IF sub.t = "list"
             THEN Flatten([i \in 1..Len(sub.v) |->
                      IF strip(str(sub.v[i])) # <<>>
                      THEN <<FormatDef(label, strip(str(sub.v[i])))>> ELSE <<>>])
             ELSE IF sub.t = "str" /\ strip(sub.v) # <<>>
             THEN <<FormatDef(label, strip(sub.v))>>
             ELSE <<>>

EntryDefs(entry) ==
    LET makna == Or2(get(entry, "makna"), JList(<<>>))
    IN  IF makna.t = "list"
        THEN Flatten([i \in 1..Len(makna.v) |-> MaknaDefs(makna.v[i])])
        ELSE <<>>

\* (k0.get("kode") or k0.get("nama") or "").strip() raises AttributeError on a
\* label that is not a str
EntryRaises(entry) ==
    LET makna == Or2(get(entry, "makna"), JList(<<>>))
    IN  /\ EntryNama(entry) # <<>>
        /\ _kbbi_normalize(EntryNama(entry)) # <<>>
        /\ makna.t = "list"
        /\ \E i \in 1..Len(makna.v) :
              makna.v[i].t = "dict" /\ LabelValue(makna.v[i]).t # "str"

\* for d in defs: if d and d not in bucket["definisi"]: append
RECURSIVE AppendNew(_, _)
AppendNew(list, defs) ==
    IF defs = <<>> THEN list
    ELSE AppendNew(IF Head(defs) # <<>> /\ ~Contains(list, Head(defs))
                   THEN Append(list, Head(defs)) ELSE list,
                   Tail(defs))

\* kbbi.py:188-253: the loop over the entries; idx maps key -> [lema (a set), definisi]
RECURSIVE IndexEntries(_, _)
IndexEntries(entries, idx) ==
    IF entries = <<>> THEN idx
    ELSE LET entry == Head(entries)
             nama == EntryNama(entry)
             key == _kbbi_normalize(nama)
         IN  IF nama = <<>> \/ key = <<>>
             THEN IndexEntries(Tail(entries), idx)
             ELSE LET bucket == IF key \in DOMAIN idx THEN idx[key]
                                ELSE [lema |-> {}, definisi |-> <<>>]
                      filled == [lema |-> bucket.lema \cup {nama},
                                 definisi |-> AppendNew(bucket.definisi, EntryDefs(entry))]
                  IN  IndexEntries(Tail(entries),
                         [k \in DOMAIN idx \cup {key} |-> IF k = key THEN filled ELSE idx[k]])

\* kbbi.py:255-257: finalize sets to lists
FinalizeIndex(idx) ==
    [k \in DOMAIN idx |-> [lema |-> sorted(idx[k].lema), definisi |-> idx[k].definisi]]

EmptyDict == [k \in {} |-> None]

\* the index built from the part files, or the exception the build raises
BuildIndex(files) ==
    LET entries == _kbbi_load_all_parts(files)
    IN  IF \E i \in 1..Len(entries) : EntryRaises(entries[i])
        THEN [t |-> "raise", v |-> EmptyDict]
        ELSE [t |-> "index", v |-> FinalizeIndex(IndexEntries(entries, EmptyDict))]

(***************************************************************************)
(* The word database.  A shard file is [readable, obj]: whether open() and *)
(* json.load succeed, and the parsed top-level value; a top-level dict     *)
(* holds (key, record) pairs whose keys are words.  A Python dict is a     *)
(* sequence of (key, value) pairs in insertion order.                      *)
(***************************************************************************)
DictHas(d, k) == \E j \in 1..Len(d) : d[j][1] = k

DictGet(d, k) == IF DictHas(d, k) THEN d[CHOOSE j \in 1..Len(d) : d[j][1] = k][2] ELSE None

\* d[k] = v: a new key is appended, an old key keeps its place
DictSet(d, k, v) ==
    IF DictHas(d, k) THEN [j \in 1..Len(d) |-> IF d[j][1] = k THEN <<k, v>> ELSE d[j]]
    ELSE Append(d, <<k, v>>)

\* kbbi.py:366-369: for k, v in obj.items(): if k not in combined: combined[k] = v
RECURSIVE MergeShard(_, _)
MergeShard(pairs, combined) ==
    IF pairs = <<>> THEN combined
    ELSE MergeShard(Tail(pairs),
            IF ~DictHas(combined, Head(pairs)[1])
            THEN Append(combined, Head(pairs)) ELSE combined)

RECURSIVE _kbbi_load_word_db_raw(_)
_kbbi_load_word_db_raw(files) ==
    IF files = <<>> THEN <<>>
    ELSE LET before == _kbbi_load_word_db_raw(SubSeq(files, 1, Len(files) - 1))
             f == files[Len(files)]
         IN  IF f.readable /\ f.obj.t = "dict" THEN MergeShard(f.obj.v, before) ELSE before

\* (rec or {}).get("data") or {}
RecData(rec) == IF Truthy(rec) THEN Or2(get(rec, "data"), JDict(<<>>)) ELSE JDict(<<>>)

\* data.get("entri") or []
RecEntri(rec) == Or2(get(RecData(rec), "entri"), JList(<<>>))

\* .get on a value that is not a dict raises AttributeError
RecRaises(rec) ==
    \/ Truthy(rec) /\ rec.t # "dict"
    \/ rec.t = "dict" /\ Truthy(get(rec, "data")) /\ get(rec, "data").t # "dict"

\* line 409 without its test of ln: a lemma that normalizes to nothing is filed too
RECURSIVE IndexLemas_Unguarded(_, _, _)
IndexLemas_Unguarded(ents, rec, by_lema) ==
    IF ents = <<>> THEN by_lema
    ELSE LET ent == Head(ents)
             nama == IF ent.t = "dict" THEN Or2(get(ent, "nama"), get(ent, "lema")) ELSE None
             ln == IF nama.t = "str" THEN _kbbi_normalize(nama.v) ELSE <<>>
         IN  IndexLemas_Unguarded(Tail(ents), rec,
                IF nama.t = "str" /\ ~DictHas(by_lema, ln) THEN DictSet(by_lema, ln, rec)
                ELSE by_lema)

\* kbbi.py:403-410: the embedded lemmas of one record, first writer wins
RECURSIVE IndexLemas(_, _, _)
IndexLemas(ents, rec, by_lema) ==
    IF ents = <<>> THEN by_lema
    ELSE LET ent == Head(ents)
             nama == IF ent.t = "dict" THEN Or2(get(ent, "nama"), get(ent, "lema")) ELSE None
             ln == IF nama.t = "str" THEN _kbbi_normalize(nama.v) ELSE <<>>
         IN  IndexLemas(Tail(ents), rec,
                IF ln # <<>> /\ ~DictHas(by_lema, ln) THEN DictSet(by_lema, ln, rec)
                ELSE by_lema)

\* kbbi.py:395-410: the loop over raw.items()
RECURSIVE IndexRecords(_, _)
IndexRecords(raw, idx) ==
    IF raw = <<>> THEN idx
    ELSE LET k == Head(raw)[1]
             rec == Head(raw)[2]
             nk == _kbbi_normalize(k)
             entri == RecEntri(rec)
         IN  IndexRecords(Tail(raw),
                [idx EXCEPT
                    !.by_key = IF nk # <<>> THEN DictSet(@, nk, rec) ELSE @,
                    !.orig_key = IF nk # <<>> THEN DictSet(@, nk, k) ELSE @,
                    !.by_lema = IF entri.t = "list" THEN IndexLemas(entri.v, rec, @) ELSE @])

\* the word index built from the shard files, or the exception the build raises
BuildWordIndex(files) ==
    LET raw == _kbbi_load_word_db_raw(files)
    IN  IF \E j \in 1..Len(raw) : RecRaises(raw[j][2])
        THEN [t |-> "raise", by_key |-> <<>>, by_lema |-> <<>>, orig_key |-> <<>>, raw |-> <<>>]
        ELSE IndexRecords(raw, [t |-> "index", by_key |-> <<>>, by_lema |-> <<>>,
                                orig_key |-> <<>>, raw |-> raw])

_first_kelas(m) ==
    LET klist == Or2(get(m, "kelas"), JList(<<>>))
    IN  IF klist.t = "list" /\ klist.v # <<>>
        THEN IF klist.v[1].t = "dict"
             THEN Or3(get(klist.v[1], "kode"), get(klist.v[1], "nama"), JStr(<<>>))
             ELSE IF klist.v[1].t = "str" THEN klist.v[1] ELSE JStr(<<>>)
        ELSE IF klist.t = "str" THEN klist ELSE JStr(<<>>)

\* m.get(key) if isinstance(m.get(key), list) else []
ListOrEmpty(m, key) == IF get(m, key).t = "list" THEN get(m, key).v ELSE <<>>

\* kbbi.py:300-330: the senses one dict item of makna contributes
WordSenses(m) ==
    LET cls == strip(_first_kelas(m).v)
        subs == Or2(Or3(get(m, "submakna"), get(m, "arti"), get(m, "definisi")), JList(<<>>))
        mk(st) == [kelas |-> cls, deskripsi |-> st, contoh |-> ListOrEmpty(m, "contoh"),
                   sinonim |-> ListOrEmpty(m, "sinonim"), antonim |-> ListOrEmpty(m, "antonim")]
    IN  IF subs.t = "list"
        THEN Flatten([i \in 1..Len(subs.v) |->
                 IF strip(str(subs.v[i])) # <<>> THEN <<mk(strip(str(subs.v[i])))>> ELSE <<>>])
        ELSE IF subs.t = "str" /\ strip(subs.v) # <<>> THEN <<mk(strip(subs.v))>>
        ELSE <<>>

\* e.get("nama") or e.get("lema") or ""
WordEntryNama(e) == Or3(get(e, "nama"), get(e, "lema"), JStr(<<>>))

WordEntryMakna(e) ==
    LET makna_src == Or2(get(e, "makna"), JList(<<>>))
    IN  IF makna_src.t = "list"
        THEN Flatten([i \in 1..Len(makna_src.v) |->
                 IF makna_src.v[i].t = "dict" THEN WordSenses(makna_src.v[i]) ELSE <<>>])
        ELSE <<>>

\* _first_kelas raises AttributeError on a class label that is not a str
TransformRaises(rec) ==
    \/ RecRaises(rec)
    \/ /\ RecEntri(rec).t = "list"
       /\ \E i \in 1..Len(RecEntri(rec).v) :
            LET e == RecEntri(rec).v[i]
                makna_src == IF e.t = "dict" THEN Or2(get(e, "makna"), JList(<<>>)) ELSE JList(<<>>)
            IN  /\ makna_src.t = "list"
                /\ \E n \in 1..Len(makna_src.v) :
                      makna_src.v[n].t = "dict" /\ _first_kelas(makna_src.v[n]).t # "str"

\* lemma_unique
RECURSIVE Unique(_, _)
Unique(list, seen) ==
    IF list = <<>> THEN <<>>
    ELSE IF Head(list) \in seen THEN Unique(Tail(list), seen)
    ELSE <<Head(list)>> \o Unique(Tail(list), seen \cup {Head(list)})

_kbbi_transform_word_record(rec) ==
    LET ent == RecEntri(rec)
        es == IF ent.t = "list" THEN SelectSeq(ent.v, LAMBDA e : e.t = "dict") ELSE <<>>
        entri_payload == [i \in 1..Len(es) |->
                             [lema |-> WordEntryNama(es[i]), makna |-> WordEntryMakna(es[i])]]
        lemma == Flatten([i \in 1..Len(es) |->
                     IF WordEntryNama(es[i]).t = "str" /\ strip(WordEntryNama(es[i]).v) # <<>>
                     THEN <<strip(WordEntryNama(es[i]).v)>> ELSE <<>>])
        definisi == Flatten([i \in 1..Len(es) |->
                        [n \in 1..Len(entri_payload[i].makna) |->
                            FormatDef(entri_payload[i].makna[n].kelas,
                                      entri_payload[i].makna[n].deskripsi)]])
    IN  [lema |-> Unique(lemma, {}), definisi |-> definisi, entri |-> entri_payload]

(***************************************************************************)
(* Program constants.                                                      *)
(***************************************************************************)
_KBBI_CACHE_TTL == 6 * 3600

_RATE_LIMIT_MAX == 60

_RATE_LIMIT_WINDOW == 60

\* combined[:10], limit=10, sorted(offline_keys)[:10]
SARAN_LIMIT == 10

(***************************************************************************)
(* The remote source, kbbi.KBBI.  One call has one of three outcomes:      *)
(*   [kind |-> "serial", serial]  KBBIOnline(kata).serialisasi() returned, *)
(*   [kind |-> "TidakDitemukan", saran]  KBBIOnline(kata) raised           *)
(*       TidakDitemukan, whose objek.saran_entri is saran,                 *)
(*   [kind |-> "error"]  any other exception (timeout, transport).         *)
(***************************************************************************)
\* kbbi.py:500-527: the senses of one entry of the serialization
OnlineSense(m) ==
    LET klist == Or2(get(m, "kelas"), JList(<<>>))
        cls == IF klist.t = "list" /\ klist.v # <<>> /\ klist.v[1].t = "dict"
               THEN strip(Or3(get(klist.v[1], "kode"), get(klist.v[1], "nama"), JStr(<<>>)).v)
               ELSE <<>>
        sub == Or2(Or3(get(m, "submakna"), get(m, "arti"), get(m, "definisi")), JList(<<>>))
        deskr == IF sub.t = "list" /\ sub.v # <<>> THEN strip(str(sub.v[1]))
                 ELSE IF sub.t = "str" THEN strip(sub.v) ELSE <<>>
    IN  [kelas |-> cls, deskripsi |-> deskr, contoh |-> ListOrEmpty(m, "contoh"),
         sinonim |-> ListOrEmpty(m, "sinonim"), antonim |-> ListOrEmpty(m, "antonim")]

\* ent.get("makna") or [], iterated: the items of a list (the characters of a str and
\* the keys of a dict are not dicts and are skipped)
OnlineMaknaItems(ent) ==
    LET makna == Or2(get(ent, "makna"), JList(<<>>))
    IN  IF makna.t = "list" THEN SelectSeq(makna.v, LAMBDA m : m.t = "dict") ELSE <<>>

OnlineEntries(serial) ==
    LET entri_src == Or2(get(serial, "entri"), JList(<<>>))
    IN  IF entri_src.t = "list" THEN SelectSeq(entri_src.v, LAMBDA e : e.t = "dict") ELSE <<>>

\* ent.get("nama") or ent.get("lema") or None
OnlineNama(ent) == Or3(get(ent, "nama"), get(ent, "lema"), None)

\* the exceptions of kbbi.py:492-538: .get on a serialization that is no dict, a
\* makna that cannot be iterated, .strip() on a label that is no str, a lemma that
\* is no str in sorted(list({*lemma}))
OnlineRaises(serial) ==
    \/ serial.t # "dict"
    \/ \E i \in 1..Len(OnlineEntries(serial)) :
          LET ent == OnlineEntries(serial)[i]
          IN  \/ get(ent, "makna").t = "num" /\ Truthy(get(ent, "makna"))
              \/ Truthy(OnlineNama(ent)) /\ OnlineNama(ent).t # "str"
              \/ \E n \in 1..Len(OnlineMaknaItems(ent)) :
                    LET klist == Or2(get(OnlineMaknaItems(ent)[n], "kelas"), JList(<<>>))
                    IN  /\ klist.t = "list" /\ klist.v # <<>> /\ klist.v[1].t = "dict"
                        /\ Or3(get(klist.v[1], "kode"), get(klist.v[1], "nama"), JStr(<<>>)).t # "str"

Payload(kata, lema, definisi, entri, sumber) ==
    [valid |-> TRUE, kata |-> kata, lema |-> lema, definisi |-> definisi, entri |-> entri,
     saran |-> <<>>, sumber |-> sumber, cache_hit |-> FALSE]

\* the not-found body without its discriminator
NotFound_Bare(saran) == [error |-> "kata tidak ditemukan", saran |-> saran]

\* kbbi.py:669: the body of the 404 response
NotFound(saran) == [valid |-> FALSE, error |-> "kata tidak ditemukan", saran |-> saran]

\* kbbi.py:492-548: the payload mapped from the serialization
OnlinePayload(kata, serial) ==
    LET es == OnlineEntries(serial)
        entri_payload == [i \in 1..Len(es) |->
                             [lema |-> OnlineNama(es[i]),
                              makna |-> [n \in 1..Len(OnlineMaknaItems(es[i])) |->
                                            OnlineSense(OnlineMaknaItems(es[i])[n])]]]
        lemma == {entri_payload[i].lema.v : i \in {j \in 1..Len(es) : Truthy(entri_payload[j].lema)}}
        definisi == Flatten([i \in 1..Len(es) |->
                        Flatten([n \in 1..Len(entri_payload[i].makna) |->
                            LET m == entri_payload[i].makna[n]
                            IN  IF m.deskripsi # <<>> THEN <<FormatDef(m.kelas, m.deskripsi)>>
                                ELSE <<>>])])
    IN  Payload(kata, sorted(lemma), definisi, entri_payload, "kbbi-online")

(***************************************************************************)
(* The stages of the chain.  A stage gives [t |-> "hit", body] (a payload  *)
(* to store and return), [t |-> "stop", body] (a response that ends the    *)
(* chain, nothing stored) or [t |-> "next"].                               *)
(***************************************************************************)
Hit(payload) == [t |-> "hit", body |-> payload]

Stop(body) == [t |-> "stop", body |-> body]

NextSource == [t |-> "next", body |-> None]

\* kbbi.py:488-576 without the return of line 571: not-found goes on to the word-db
TryOnline_FallThrough(kata, remote, simple) ==
    IF remote.kind = "serial"
    THEN IF OnlineRaises(remote.serial) THEN NextSource
         ELSE Hit(OnlinePayload(kata, remote.serial))
    ELSE NextSource

\* kbbi.py:488-576
TryOnline(kata, remote, simple) ==
    IF remote.kind = "serial"
    THEN IF OnlineRaises(remote.serial) THEN NextSource
         ELSE Hit(OnlinePayload(kata, remote.serial))
    ELSE IF remote.kind = "TidakDitemukan"
    THEN Stop(NotFound(IF remote.saran = <<>> /\ simple THEN get_saran(kata) ELSE remote.saran))
    ELSE NextSource

\* line 422 with its operands exchanged: the lemma mapping is asked first
_kbbi_lookup_word_db_LemmaFirst(idx, kata) ==
    LET norm == _kbbi_normalize(kata)
    IN  Or2(DictGet(idx.by_lema, norm), DictGet(idx.by_key, norm))

\* kbbi.py:415-425 on the index idx that _kbbi_build_word_index() returned
_kbbi_lookup_word_db(idx, kata) ==
    LET norm == _kbbi_normalize(kata)
    IN  Or2(DictGet(idx.by_key, norm), DictGet(idx.by_lema, norm))

\* kbbi.py:578-602
TryWordDb(kata, idx) ==
    IF idx.t = "raise" THEN NextSource
    ELSE LET rec == _kbbi_lookup_word_db(idx, kata)
         IN  IF ~Truthy(rec) \/ TransformRaises(rec) THEN NextSource
             ELSE LET wd == _kbbi_transform_word_record(rec)
                  IN  Hit(Payload(kata, wd.lema, wd.definisi, wd.entri, "kbbi-worddb"))

\* kbbi.py:604-629 with the built-in corpus never matching
TrySimple_Skipped(kata) == NextSource

\* kbbi.py:604-629
TrySimple(kata) ==
    IF normalize_kata(kata) \in DOMAIN KBBI_DATA
    THEN LET data == cari_kata(kata)
         IN  Hit(Payload(kata, data.lema, data.definisi, data.entri, "kbbi-simple"))
    ELSE NextSource

\* kbbi.py:428-439
_kbbi_word_suggestions(idx, prefix_norm, limit) ==
    LET match == SelectSeq(idx.orig_key, LAMBDA kv : startswith(kv[1], prefix_norm))
    IN  [i \in 1..(IF Len(match) < limit THEN Len(match) ELSE limit) |-> match[i][2]]

\* for x in xs: if x not in combined: combined.append(x)
RECURSIVE Combine(_, _)
Combine(combined, xs) ==
    IF xs = <<>> THEN combined
    ELSE Combine(IF Contains(combined, Head(xs)) THEN combined ELSE Append(combined, Head(xs)),
                 Tail(xs))

\* kbbi.py:635-667: the suggestions of a total miss
Suggestions(kata, key_norm, simple, widx, idx) ==
    LET prefix == Prefix(key_norm, 2)
        s1 == IF simple THEN Combine(<<>>, get_saran(kata)) ELSE <<>>
        s2 == IF widx.t = "raise" THEN s1
              ELSE Combine(s1, _kbbi_word_suggestions(widx, prefix, SARAN_LIMIT))
        offline_keys == {k \in DOMAIN idx : startswith(k, prefix)}
        s3 == Combine(s2, Prefix(sorted(offline_keys), SARAN_LIMIT))
    IN  Prefix(s3, SARAN_LIMIT)

\* kbbi.py:631-686 on the index idx.v that _kbbi_build_index() returned
TryOffline(kata, key_norm, simple, widx, idx) ==
    IF key_norm \in DOMAIN idx.v
    THEN Hit(Payload(kata, idx.v[key_norm].lema, idx.v[key_norm].definisi, <<>>, "kbbi-offline"))
    ELSE Stop(NotFound(Suggestions(kata, key_norm, simple, widx, idx.v)))

(***************************************************************************)
(* The environment: the corpora on disk, the queries, the remote outcomes. *)
(***************************************************************************)
W_ruang == <<"r", "u", "a", "n", "g">>

W_ruh == <<"r", "u", "h">>

W_ruzz == <<"r", "u", "z", "z">>

Text_a == <<"b", "i", "l", "i", "k">>

Text_b == <<"j", "i", "w", "a">>

\* a structured record {nama, makna: [{kelas: [{kode}], submakna: [sub]}]}
Entry(nama, kode, sub) ==
    JDict(<< <<"nama", JStr(nama)>>,
             <<"makna", JList(<< JDict(<< <<"kelas", JList(<< JDict(<< <<"kode", JStr(kode)>> >>) >>)>>,
                                          <<"submakna", JList(<< JStr(sub) >>)>> >>) >>)>> >>)

\* the same record with any JSON value as the code of its class
EntryLabelled(nama, kode, sub) ==
    JDict(<< <<"nama", JStr(nama)>>,
             <<"makna", JList(<< JDict(<< <<"kelas", JList(<< JDict(<< <<"kode", kode>> >>) >>)>>,
                                          <<"submakna", JList(<< JStr(sub) >>)>> >>) >>)>> >>)

\* a record with the given name fields in place of nama
EntryNamed(names, kode, sub) == JDict(names \o Tail(Entry(<<>>, kode, sub).v))

Unreadable == [readable |-> FALSE, docs |-> <<>>]

\* [ {entri: [...]} ]: a list of groups
GroupFile(entries) ==
    [readable |-> TRUE, docs |-> << JList(<< JDict(<< <<"entri", JList(entries)>> >>) >>) >>]

\* { "data": [ {entry}, ... ] }
DataFile(entries) ==
    [readable |-> TRUE, docs |-> << JDict(<< <<"data", JList(entries)>> >>) >>]

\* the part files on disk
Parts(id) ==
    CASE id = "small" ->
           << GroupFile(<< Entry(<<"r", "u", ".", "m", "a", "h">>, <<"n">>, Text_a),
                           Entry(<<"R", "u", "a", "n", "g">>, <<"n">>, Text_a),
                           Entry(<<"r", "u", "a", "n", "g">>, <<"n">>, Text_b) >>) >>
      [] id = "large" ->
           << GroupFile(<< Entry(<<"r", "u", ".", "m", "a", "h">>, <<"n">>, Text_a),
                           Entry(<<"R", "u", "a", "n", "g">>, <<"n">>, Text_a) >>),
              Unreadable,
              DataFile(<< Entry(W_ruh, <<"n">>, Text_b),
                          Entry(<<"r", "u", "i">>, <<>>, Text_b),
                          Entry(<<"r", "u", "j">>, <<"n">>, Text_b),
                          Entry(<<"r", "u", "k">>, <<"n">>, Text_b),
                          Entry(<<"r", "u", "m">>, <<"n">>, Text_b),
                          Entry(<<"r", "u", "n">>, <<"n">>, Text_b),
                          Entry(<<".">>, <<"n">>, Text_b) >>) >>
      [] id = "blank" ->
           << GroupFile(<< Entry(<<".">>, <<"n">>, Text_a),
                           Entry(<<"_">>, <<"n">>, Text_a),
                           Entry(<<" ", "\t">>, <<"n">>, Text_a),
                           Entry(<<"R", "u", "_", "h">>, <<"n">>, Text_a),
                           Entry(<<" ", "r", "u", ".", "h", " ">>, <<"n">>, Text_b) >>) >>
      [] id = "label" ->
           << DataFile(<< Entry(W_ruh, <<"n">>, Text_b),
                          EntryLabelled(W_ruang, JNum(<<"1">>), Text_a) >>) >>
      [] id = "alias" ->
           << GroupFile(<<
                 EntryNamed(<< <<"nama", JStr(<<" ">>)>>, <<"lema", JStr(W_ruh)>> >>, <<"n">>, Text_a),
                 EntryNamed(<< <<"nama", None>>, <<"lema", JStr(<<>>)>>,
                               <<"kata", JStr(<<"r", "u", "a">>)>> >>, <<"n">>, Text_a),
                 EntryNamed(<< <<"nama", JDict(<< <<"text", JStr(<<" ">>)>>,
                                                   <<"value", JStr(<<"r", "u", "b">>)>> >>)>> >>,
                            <<"n">>, Text_a),
                 EntryNamed(<< <<"lema", JStr(<<"r", "u", "g">>)>>,
                               <<"kata", JStr(<<"r", "u", "i">>)>> >>, <<"n">>, Text_b),
                 EntryNamed(<< <<"nama", JDict(<< <<"text", JStr(<<"r", "u", "p">>)>> >>)>>,
                               <<"kata", JStr(<<"r", "u", "n">>)>> >>, <<"n">>, Text_b),
                 EntryNamed(<< <<"nama", JNum(<<"1">>)>> >>, <<"n">>, Text_b) >>) >>
      [] id = "wrapped" ->
           << [readable |-> TRUE,
               docs |-> << JDict(<<
                  <<"data", JDict(<< <<"entri", JList(<< Entry(W_ruh, <<"n">>, Text_a) >>)>> >>)>>,
                  <<"result", JList(<<
                      JDict(<< <<"entri", JList(<< Entry(<<"r", "u", "a">>, <<"n">>, Text_a) >>)>> >>),
                      JDict(<< <<"list", JList(<<
                          JDict(<< <<"entries",
                                     JList(<< Entry(<<"r", "u", "b">>, <<"n">>, Text_b) >>)>> >>) >>)>> >>) >>)>>,
                  <<"daftar", JDict(<< <<"x", JDict(<< <<"entri",
                      JList(<< Entry(<<"r", "u", "g">>, <<"n">>, Text_b) >>)>> >>)>> >>)>> >>) >>] >>

PartIds == {"small", "large"}

\* corpora of unusual shape: names that normalize to nothing, a class label that
\* is a number, names in the alternate and the nested fields, groups of entries
\* beneath wrapper keys
OddPartIds == {"blank", "label", "alias", "wrapped"}

\* a word-db record {data: {entri: [entry, ...]}}
Rec(entries) == JDict(<< <<"data", JDict(<< <<"entri", JList(entries)>> >>)>> >>)

Shard(pairs) == [readable |-> TRUE, obj |-> JDict(pairs)]

\* the word-db shards on disk
WordDb(id) ==
    CASE id = "one" ->
           << Shard(<< <<<<"R", "u", "a", "n", "g">>, Rec(<< Entry(W_ruang, <<"n">>, Text_a) >>)>> >>) >>
      [] id = "two" ->
           << Shard(<< <<<<"R", "u", "a", "n", "g">>, Rec(<< Entry(W_ruang, <<"n">>, Text_a) >>)>>,
                       <<<<"r", "u", "a">>, Rec(<< Entry(<<"r", "u", "a">>, <<"n">>, Text_a) >>)>>,
                       <<<<"r", "u", "b">>, Rec(<< Entry(<<"r", "u", "b">>, <<"n">>, Text_a) >>)>> >>),
              [readable |-> FALSE, obj |-> None],
              Shard(<< <<<<"R", "u", "a", "n", "g">>, Rec(<< Entry(W_ruang, <<"a">>, Text_b) >>)>>,
                       <<<<"r", "u", "g">>, Rec(<< Entry(<<"r", "u", "g">>, <<"n">>, Text_a),
                                                  Entry(<<"r", "u", "_", "g">>, <<"n">>, Text_b) >>)>>,
                       <<<<"r", "u", "p">>, Rec(<< Entry(<<"r", "u", "p">>, <<"n">>, Text_a) >>)>> >>) >>
      [] id = "clash" ->
           << Shard(<< <<<<"R", "u", "a", "n", "g">>, Rec(<< Entry(W_ruang, <<"n">>, Text_a) >>)>> >>),
              Shard(<< <<<<"R", "u", "a", "n", "g">>, Rec(<< Entry(W_ruang, <<"a">>, Text_b) >>)>>,
                       <<W_ruang, Rec(<< Entry(W_ruang, <<"b">>, Text_b) >>)>> >>) >>
      [] id = "blank" ->
           << Shard(<< <<<<"_">>, Rec(<< Entry(<<".", ".">>, <<"n">>, Text_a) >>)>>,
                       <<<<" ", ".">>, Rec(<< Entry(<<"r", "u", "_">>, <<"n">>, Text_a) >>)>>,
                       <<<<"R", ".", "u", "h">>, Rec(<< Entry(<<"_", " ">>, <<"n">>, Text_b) >>)>> >>) >>
      [] id = "hollow" ->
           << Shard(<< <<<<"R", "u", "a", "n", "g">>, JDict(<<>>)>>,
                       <<W_ruh, None>>,
                       <<<<"r", "u", "a">>, Rec(<< Entry(W_ruang, <<"n">>, Text_a) >>)>>,
                       <<<<"r", "u", "b">>, Rec(<< Entry(W_ruang, <<"a">>, Text_b) >>)>> >>) >>

WordDbIds == {"one", "two"}

\* shards that share keys which normalize alike, keys and lemmas that normalize
\* to nothing, keys whose record is {} or null
OddWordDbIds == {"clash", "blank", "hollow"}

\* the clients (ip)
Clients == {"10.0.0.1"}

\* the values of the kata parameter
Queries == {W_buku, W_ruang, W_ruh, W_ruzz}

Remote(kind, serial, saran) == [kind |-> kind, serial |-> serial, saran |-> saran]

\* the outcomes of one call of the remote source
RemoteOutcomes ==
    { Remote("serial", JDict(<< <<"entri", JList(<< Entry(W_ruang, <<"n">>, Text_a) >>)>> >>), <<>>),
      Remote("serial", JDict(<< <<"pranala", JStr(<<"u", "r", "l">>)>> >>), <<>>),
      Remote("serial", JList(<<>>), <<>>),
      Remote("TidakDitemukan", None, <<>>),
      Remote("TidakDitemukan", None, <<W_ruang, W_ruh>>),
      Remote("TidakDitemukan", None, <<W_ruang, W_ruang>>),
      Remote("TidakDitemukan", None,
             <<W_ruang, W_ruh, W_buku, W_rumah, W_pijar, W_ruzz, <<"r", "u", "a">>,
               <<"r", "u", "b">>, <<"r", "u", "g">>, <<"r", "u", "i">>, <<"r", "u", "j">> >>),
      Remote("error", None, <<>>) }

\* the step of the clock between two samples, and the number of samples a side
Step == 30

MaxSteps == 1

\* the instants at which the clock is read: around 0 and around one TTL later
Times == {base + k * Step : base \in {0, _KBBI_CACHE_TTL}, k \in 0..MaxSteps}

\* the lookups of one behaviour of Spec
MaxBurst == 1

(***************************************************************************)
(* kbbi_cek.                                                               *)
(***************************************************************************)
\* the sources with the offline index tried before the two other local sources
SourceOrder_OfflineEarly == <<"online", "offline", "worddb", "simple">>

\* the order in which kbbi.py:487-686 tries the sources
SourceOrder == <<"online", "worddb", "simple", "offline">>

\* what the builders give for each corpus on disk
PartsIndex == [id \in PartIds \cup OddPartIds |-> BuildIndex(Parts(id))]

WordDbIndex == [id \in WordDbIds \cup OddWordDbIds |-> BuildWordIndex(WordDb(id))]

\* _kbbi_build_word_index(): the memoized index, or a fresh build
WordIndexNow == IF _KBBI_WORD_INDEX.t = "none" THEN WordDbIndex[wordDbFiles] ELSE _KBBI_WORD_INDEX

\* _kbbi_build_index(): the memoized index, or a fresh build
IndexNow == IF _kbbi_index.t = "none" THEN PartsIndex[partFiles] ELSE _kbbi_index

\* the module globals after a call of a builder: an exception leaves them as they were
Memo(global, built) == IF global.t = "none" /\ built.t = "index" THEN built ELSE global

\* one source of the chain: its stage result, or [t |-> "skip"] when the source is
\* not tried at all, or [t |-> "raise"] when its exception is not caught; widx and
\* idx are what the builders return in this request
TrySource(src, kata, remote, widx, idx) ==
    CASE src = "online" ->
           IF KBBI_ONLINE_AVAILABLE THEN TryOnline(kata, remote, KBBI_SIMPLE_AVAILABLE)
           ELSE [t |-> "skip", body |-> None]
      [] src = "worddb" -> TryWordDb(kata, widx)
      [] src = "simple" ->
           IF KBBI_SIMPLE_AVAILABLE THEN TrySimple(kata) ELSE [t |-> "skip", body |-> None]
      [] src = "offline" ->
           IF idx.t = "raise" THEN [t |-> "raise", body |-> None]
           ELSE TryOffline(kata, _kbbi_normalize(kata), KBBI_SIMPLE_AVAILABLE, widx, idx)

\* the chain from its n-th source on; consulted lists the sources tried so far
RECURSIVE RunChain(_, _, _, _, _, _)
ChainStep(kata, remote, n, consulted, widx, idx, r) ==
    IF r.t = "skip" THEN RunChain(kata, remote, n + 1, consulted, widx, idx)
    ELSE IF r.t = "next"
    THEN RunChain(kata, remote, n + 1, Append(consulted, SourceOrder[n]), widx, idx)
    ELSE [t |-> r.t, body |-> r.body, consulted |-> Append(consulted, SourceOrder[n])]

RunChain(kata, remote, n, consulted, widx, idx) ==
    ChainStep(kata, remote, n, consulted, widx, idx,
              TrySource(SourceOrder[n], kata, remote, widx, idx))

\* bucket = [t for t in bucket if now_ts - t < _RATE_LIMIT_WINDOW]
PruneBucket(bucket, now_ts) == SelectSeq(bucket, LAMBDA t : now_ts - t < _RATE_LIMIT_WINDOW)

\* the comparison of line 468 with > for >=: one request more is let through
RateExceeded_OffByOne(bucket) == Len(bucket) > _RATE_LIMIT_MAX

\* len(bucket) >= _RATE_LIMIT_MAX
RateExceeded(bucket) == Len(bucket) >= _RATE_LIMIT_MAX

\* _RATE_BUCKET.get(ip, [])
BucketOf(ip) == IF ip \in DOMAIN _RATE_BUCKET THEN _RATE_BUCKET[ip] ELSE <<>>

NoRecord == [t |-> "none", ts |-> 0, payload |-> None]

\* the comparison of line 481 with <= for <: a record is served one instant longer
CacheFresh_Inclusive(c, now_ts) == c.t = "rec" /\ now_ts - c.ts <= _KBBI_CACHE_TTL

\* c and (now_ts - (c.get("ts") or 0) < _KBBI_CACHE_TTL)
CacheFresh(c, now_ts) == c.t = "rec" /\ now_ts - c.ts < _KBBI_CACHE_TTL

\* _KBBI_CACHE.get(key_norm)
CacheGet(key_norm) == IF key_norm \in DOMAIN _KBBI_CACHE THEN _KBBI_CACHE[key_norm] ELSE NoRecord

\* d[k] = v on a dict held as a function
Put(d, k, v) == [x \in DOMAIN d \cup {k} |-> IF x = k THEN v ELSE d[x]]

\* _RATE_BUCKET after a request that is admitted: _RATE_BUCKET[ip] = bucket + [now_ts]
AdmittedBuckets(ip, bucket, now_ts) == Put(_RATE_BUCKET, ip, Append(bucket, now_ts))

\* lines 470-471 moved before the test of line 468: a denied request is recorded too
DeniedBuckets_Recorded(ip, bucket, now_ts) == Put(_RATE_BUCKET, ip, Append(bucket, now_ts))

\* _RATE_BUCKET after a request that is denied: the return precedes the assignment
DeniedBuckets(ip, bucket, now_ts) == _RATE_BUCKET

\* _KBBI_CACHE[key_norm] = {"ts": now_ts, "payload": payload}
CachePut(key_norm, now_ts, payload) ==
    Put(_KBBI_CACHE, key_norm, [t |-> "rec", ts |-> now_ts, payload |-> payload])

\* line 484 left out: the stored payload is returned as it is
CacheHitBody_Unflagged(c) == c.payload

\* payload = dict(c.get("payload")); payload["cache_hit"] = True
CacheHitBody(c) == [c.payload EXCEPT !.cache_hit = TRUE]

Observe(op, ip, kata, remote, status, body, consulted, c) ==
    [op |-> op, ip |-> ip, kata |-> kata, remote |-> remote, status |-> status,
     body |-> body, consulted |-> consulted, c |-> c]

NoRemote == [kind |-> "none", serial |-> None, saran |-> <<>>]

\* the not-found answer written to the cache like a result
Resolve_StoreNotFound(ip, kata, remote, c, key_norm, r) ==
    /\ last' = Observe("cek", ip, kata, IF KBBI_ONLINE_AVAILABLE THEN remote ELSE NoRemote,
                       CASE r.t = "hit" -> 200 [] r.t = "stop" -> 404 [] OTHER -> 500,
                       IF r.t = "raise" THEN [error |-> "Internal Server Error"] ELSE r.body,
                       r.consulted, c)
    /\ _KBBI_CACHE' = IF r.t \in {"hit", "stop"} THEN CachePut(key_norm, now, r.body) ELSE _KBBI_CACHE
    /\ _KBBI_WORD_INDEX' = IF Contains(r.consulted, "worddb")
                              \/ (r.t = "stop" /\ r.consulted[Len(r.consulted)] = "offline")
                           THEN Memo(_KBBI_WORD_INDEX, WordIndexNow)
                           ELSE _KBBI_WORD_INDEX
    /\ _kbbi_index' = IF Contains(r.consulted, "offline") THEN Memo(_kbbi_index, IndexNow)
                      ELSE _kbbi_index

\* kbbi.py:487-686: the response r of the chain and what the request leaves behind
Resolve(ip, kata, remote, c, key_norm, r) ==
    /\ last' = Observe("cek", ip, kata, IF KBBI_ONLINE_AVAILABLE THEN remote ELSE NoRemote,
                       CASE r.t = "hit" -> 200 [] r.t = "stop" -> 404 [] OTHER -> 500,
                       IF r.t = "raise" THEN [error |-> "Internal Server Error"] ELSE r.body,
                       r.consulted, c)
    /\ _KBBI_CACHE' = IF r.t = "hit" THEN CachePut(key_norm, now, r.body) ELSE _KBBI_CACHE
    /\ _KBBI_WORD_INDEX' = IF Contains(r.consulted, "worddb")
                              \/ (r.t = "stop" /\ r.consulted[Len(r.consulted)] = "offline")
                           THEN Memo(_KBBI_WORD_INDEX, WordIndexNow)
                           ELSE _KBBI_WORD_INDEX
    /\ _kbbi_index' = IF Contains(r.consulted, "offline") THEN Memo(_kbbi_index, IndexNow)
                      ELSE _kbbi_index

\* kbbi.py:456-485 with lines 456-458 moved after the return of line 469: the rate
\* limiter sees the request before the parameter is looked at
Admit_RateFirst(ip, kata, remote, bucket, c) ==
    IF RateExceeded(bucket)
    THEN /\ last' = Observe("cek", ip, kata, NoRemote, 429,
                            [error |-> "Terlalu banyak permintaan, coba lagi nanti."],
                            <<>>, NoRecord)
         /\ _RATE_BUCKET' = DeniedBuckets(ip, bucket, now)
         /\ UNCHANGED <<_KBBI_CACHE, _kbbi_index, _KBBI_WORD_INDEX>>
    ELSE IF kata = <<>>
    THEN /\ last' = Observe("cek", ip, kata, NoRemote, 400,
                            [error |-> "parameter 'kata' wajib diisi"], <<>>, NoRecord)
         /\ UNCHANGED <<_RATE_BUCKET, _KBBI_CACHE, _kbbi_index, _KBBI_WORD_INDEX>>
    ELSE /\ _RATE_BUCKET' = AdmittedBuckets(ip, bucket, now)
         /\ IF CacheFresh(c, now)
            THEN /\ last' = Observe("cek", ip, kata, NoRemote, 200, CacheHitBody(c), <<>>, c)
                 /\ UNCHANGED <<_KBBI_CACHE, _kbbi_index, _KBBI_WORD_INDEX>>
            ELSE \E r \in {RunChain(kata, remote, 1, <<>>, WordIndexNow, IndexNow)} :
                    Resolve(ip, kata, remote, c, _kbbi_normalize(kata), r)

\* kbbi.py:456-485 on the stripped parameter, the pruned bucket and the cache record
Admit(ip, kata, remote, bucket, c) ==
    IF kata = <<>>
    THEN /\ last' = Observe("cek", ip, kata, NoRemote, 400,
                            [error |-> "parameter 'kata' wajib diisi"], <<>>, NoRecord)
         /\ UNCHANGED <<_RATE_BUCKET, _KBBI_CACHE, _kbbi_index, _KBBI_WORD_INDEX>>
    ELSE IF RateExceeded(bucket)
    THEN /\ last' = Observe("cek", ip, kata, NoRemote, 429,
                            [error |-> "Terlalu banyak permintaan, coba lagi nanti."],
                            <<>>, NoRecord)
         /\ _RATE_BUCKET' = DeniedBuckets(ip, bucket, now)
         /\ UNCHANGED <<_KBBI_CACHE, _kbbi_index, _KBBI_WORD_INDEX>>
    ELSE /\ _RATE_BUCKET' = AdmittedBuckets(ip, bucket, now)
         /\ IF CacheFresh(c, now)
            THEN /\ last' = Observe("cek", ip, kata, NoRemote, 200, CacheHitBody(c), <<>>, c)
                 /\ UNCHANGED <<_KBBI_CACHE, _kbbi_index, _KBBI_WORD_INDEX>>
            ELSE \E r \in {RunChain(kata, remote, 1, <<>>, WordIndexNow, IndexNow)} :
                    Resolve(ip, kata, remote, c, _kbbi_normalize(kata), r)

\* line 473 left out: the cache is asked under the query as it was typed
kbbi_cek_RawKey(ip, kata_arg, remote) ==
    Admit(ip, strip(kata_arg), remote, PruneBucket(BucketOf(ip), now),
          CacheGet(strip(kata_arg)))

kbbi_cek(ip, kata_arg, remote) ==
    Admit(ip, strip(kata_arg), remote, PruneBucket(BucketOf(ip), now),
          CacheGet(_kbbi_normalize(strip(kata_arg))))

\* the histories kept for the properties.  resolved: every resolution that returns a
\* payload is recorded under its key, a reload forgets them all
Resolved(kata, status, body) ==
    IF status = 200 /\ ~body.cache_hit
    THEN Put(resolved, _kbbi_normalize(kata), [ts |-> now, body |-> body])
    ELSE resolved

\* admitted: the times of the requests of ip that were let through, as long as they
\* are less than one window old
Recent(times, now_ts) == SelectSeq(times, LAMBDA t : now_ts - t < _RATE_LIMIT_WINDOW)

AdmittedOf(ip) == IF ip \in DOMAIN admitted THEN admitted[ip] ELSE <<>>

Cek(ip, kata_arg, remote) ==
    /\ kbbi_cek(ip, kata_arg, remote)
    /\ resolved' = Resolved(last'.kata, last'.status, last'.body)
    /\ cleared' = IF last'.status \in {400, 429} THEN cleared ELSE {}
    /\ admitted' = IF last'.status \in {400, 429} THEN admitted
                   ELSE Put(admitted, ip, Append(AdmittedOf(ip), now))
    /\ UNCHANGED <<KBBI_ONLINE_AVAILABLE, KBBI_SIMPLE_AVAILABLE, now, partFiles, wordDbFiles,
                   calls, builds>>

(***************************************************************************)
(* kbbi_reload and kbbi_stats.                                             *)
(***************************************************************************)
NoIndex == [t |-> "none", v |-> EmptyDict]

NoWordIndex == [t |-> "none", by_key |-> <<>>, by_lema |-> <<>>, orig_key |-> <<>>, raw |-> <<>>]

\* line 697 left out: the cache survives the reload
cache_clear_Kept(cache) == cache

\* _KBBI_CACHE.clear()
cache_clear(cache) == EmptyDict

kbbi_reload ==
    LET built == PartsIndex[partFiles]
    IN  /\ _kbbi_index' = IF built.t = "index" THEN built ELSE NoIndex
        /\ _KBBI_CACHE' = cache_clear(_KBBI_CACHE)
        /\ last' = Observe("reload", "", <<>>, NoRemote,
                           IF built.t = "index" THEN 200 ELSE 500,
                           IF built.t = "index"
                           THEN [reloaded |-> TRUE, index_size |-> Cardinality(DOMAIN built.v)]
                           ELSE [error |-> "exception"],
                           <<>>, NoRecord)
        /\ UNCHANGED <<_RATE_BUCKET, _KBBI_WORD_INDEX>>

Reload ==
    /\ kbbi_reload
    /\ resolved' = EmptyDict
    /\ cleared' = DOMAIN _KBBI_CACHE
    /\ UNCHANGED <<KBBI_ONLINE_AVAILABLE, KBBI_SIMPLE_AVAILABLE, now, partFiles, wordDbFiles,
                   admitted, calls, builds>>

kbbi_stats ==
    LET entries == _kbbi_load_all_parts(Parts(partFiles))
        idx == IndexNow
        widx == WordIndexNow
    IN  /\ _kbbi_index' = Memo(_kbbi_index, idx)
        /\ _KBBI_WORD_INDEX' = IF idx.t = "raise" THEN _KBBI_WORD_INDEX
                               ELSE Memo(_KBBI_WORD_INDEX, widx)
        /\ last' = Observe("stats", "", <<>>, NoRemote,
                           IF idx.t = "raise" \/ widx.t = "raise" THEN 500 ELSE 200,
                           IF idx.t = "raise" \/ widx.t = "raise" THEN [error |-> "exception"]
                           ELSE [files |-> Len(Parts(partFiles)),
                                 entries_loaded |-> Len(entries),
                                 index_size |-> Cardinality(DOMAIN idx.v),
                                 word_db_size |-> Len(widx.raw)],
                           <<>>, NoRecord)
        /\ UNCHANGED <<_RATE_BUCKET, _KBBI_CACHE>>

Stats ==
    /\ kbbi_stats
    /\ UNCHANGED <<KBBI_ONLINE_AVAILABLE, KBBI_SIMPLE_AVAILABLE, now, partFiles, wordDbFiles,
                   resolved, cleared, admitted, calls, builds>>

(***************************************************************************)
(* The environment's steps: time passes, the corpora on disk are replaced. *)
(***************************************************************************)
Env == Observe("env", "", <<>>, NoRemote, 0, None, <<>>, NoRecord)

Tick(t) ==
    /\ t > now
    /\ now' = t
    /\ last' = Env
    /\ admitted' = [ip \in DOMAIN admitted |-> Recent(admitted[ip], t)]
    /\ UNCHANGED <<KBBI_ONLINE_AVAILABLE, KBBI_SIMPLE_AVAILABLE, _RATE_BUCKET, _KBBI_CACHE,
                   _kbbi_index, _KBBI_WORD_INDEX, partFiles, wordDbFiles, resolved, cleared,
                   calls, builds>>

WriteParts(id) ==
    /\ id # partFiles
    /\ partFiles' = id
    /\ last' = Env
    /\ UNCHANGED <<KBBI_ONLINE_AVAILABLE, KBBI_SIMPLE_AVAILABLE, now, _RATE_BUCKET, _KBBI_CACHE,
                   _kbbi_index, _KBBI_WORD_INDEX, wordDbFiles, resolved, cleared, admitted,
                   calls, builds>>

WriteWordDb(id) ==
    /\ id # wordDbFiles
    /\ wordDbFiles' = id
    /\ last' = Env
    /\ UNCHANGED <<KBBI_ONLINE_AVAILABLE, KBBI_SIMPLE_AVAILABLE, now, _RATE_BUCKET, _KBBI_CACHE,
                   _kbbi_index, _KBBI_WORD_INDEX, partFiles, resolved, cleared, admitted,
                   calls, builds>>

(***************************************************************************)
(* The two builders statement by statement, as the threads of the server   *)
(* run them (app.run serves each request in a thread of its own).  A call  *)
(* is a resolution at its offline stage (kbbi_cek, 631-633), a resolution  *)
(* at its word-db stage (_kbbi_lookup_word_db, 420-422) or kbbi_reload     *)
(* (696-699).  calls[w] holds the position of worker w and its locals:     *)
(* files is the corpus it read, idx the dict it is filling, got what the   *)
(* builder returned to it.  start, loaded and gotLoaded are history: the   *)
(* number of invalidations when the call started, when it read the corpus, *)
(* and when the corpus of the index it got was read.                       *)
(***************************************************************************)
Workers == {"w1", "w2"}

\* the calls of one behaviour
MaxCalls == 3

CallKinds == {"offline", "worddb", "reload"}

IdleCall ==
    [pc |-> "idle", kind |-> "none", files |-> "", idx |-> None, start |-> 0, loaded |-> 0,
     got |-> None, gotLoaded |-> 0, ip |-> "", now_ts |-> 0, bucket |-> <<>>,
     kata |-> <<>>, payload |-> None, mark |-> 0, seen |-> 0]

\* epoch: the invalidations so far; published: the epoch in which the corpus of the
\* published offline index was read; loads: the corpus loads of each builder since
\* its index was last invalidated; started: the calls so far; returned: the latest
\* invalidation whose kbbi_reload has returned; cachedAt: for each cache key the
\* invalidations so far when the stored payload was read from the index
NoBuilds ==
    [epoch |-> 0, published |-> 0, loads |-> [index |-> 0, word |-> 0], started |-> 0,
     returned |-> 0, cachedAt |-> <<>>]

\* the builder a call runs
Builder(kind) == IF kind = "worddb" THEN "word" ELSE "index"

\* the module global of a builder
Global(b) == IF b = "word" THEN _KBBI_WORD_INDEX ELSE _kbbi_index

SetGlobal(b, x) ==
    IF b = "word" THEN _KBBI_WORD_INDEX' = x /\ UNCHANGED _kbbi_index
    ELSE _kbbi_index' = x /\ UNCHANGED _KBBI_WORD_INDEX

\* kbbi.py:188-253 for each corpus: the dict idx after the loop, its lemma variants
\* still sets, or the exception of the loop
PartsFilled ==
    [id \in PartIds \cup OddPartIds |->
        LET entries == _kbbi_load_all_parts(Parts(id))
        IN  IF \E i \in 1..Len(entries) : EntryRaises(entries[i])
            THEN [t |-> "raise", v |-> EmptyDict]
            ELSE [t |-> "partial", v |-> IndexEntries(entries, EmptyDict)]]

\* the index built in the module global itself, not in a local dict
Visible_InPlace(global, local) == local

\* kbbi.py:188 and 392-394: the builder fills dicts of its own, the module global
\* keeps its value until the assignment that ends the build
Visible(global, local) == global

SetCall(w, call) == calls' = [calls EXCEPT ![w] = call]

BuildFrame ==
    UNCHANGED <<KBBI_ONLINE_AVAILABLE, KBBI_SIMPLE_AVAILABLE, now, _RATE_BUCKET, partFiles,
                wordDbFiles, resolved, cleared, admitted>>

\* a request arrives and reaches the call
StartCall(w, kind) ==
    /\ calls[w].pc = "idle"
    /\ builds.started < MaxCalls
    /\ SetCall(w, [IdleCall EXCEPT !.pc = IF kind = "reload" THEN "invalidate" ELSE "enter",
                                   !.kind = kind, !.start = builds.epoch])
    /\ builds' = [builds EXCEPT !.started = @ + 1]
    /\ UNCHANGED <<_KBBI_CACHE, _kbbi_index, _KBBI_WORD_INDEX, last>>
    /\ BuildFrame

\* kbbi.py:696: _kbbi_index = None
Invalidate(w) ==
    /\ calls[w].pc = "invalidate"
    /\ _kbbi_index' = NoIndex
    /\ SetCall(w, [calls[w] EXCEPT !.pc = "clear", !.mark = builds.epoch + 1])
    /\ builds' = [builds EXCEPT !.epoch = @ + 1, !.loads.index = 0]
    /\ UNCHANGED <<_KBBI_CACHE, _KBBI_WORD_INDEX, last>>
    /\ BuildFrame

\* kbbi.py:697: _KBBI_CACHE.clear()
ClearCache(w) ==
    /\ calls[w].pc = "clear"
    /\ _KBBI_CACHE' = cache_clear(_KBBI_CACHE)
    /\ SetCall(w, [calls[w] EXCEPT !.pc = "enter"])
    /\ builds' = [builds EXCEPT !.cachedAt = <<>>]
    /\ UNCHANGED <<_kbbi_index, _KBBI_WORD_INDEX, last>>
    /\ BuildFrame

\* kbbi.py:185 and 389: if the global is not None
Enter(w) ==
    /\ calls[w].pc = "enter"
    /\ SetCall(w, [calls[w] EXCEPT
                      !.pc = IF Global(Builder(calls[w].kind)).t # "none" THEN "return"
                             ELSE "load"])
    /\ UNCHANGED <<_KBBI_CACHE, _kbbi_index, _KBBI_WORD_INDEX, last, builds>>
    /\ BuildFrame

\* kbbi.py:189 and 391: the files are read
LoadCorpus(w) ==
    LET b == Builder(calls[w].kind)
    IN  /\ calls[w].pc = "load"
        /\ SetCall(w, [calls[w] EXCEPT !.pc = "fill",
                                       !.files = IF b = "word" THEN wordDbFiles ELSE partFiles,
                                       !.loaded = builds.epoch])
        /\ builds' = [builds EXCEPT !.loads[b] = @ + 1]
        /\ UNCHANGED <<_KBBI_CACHE, _kbbi_index, _KBBI_WORD_INDEX, last>>
        /\ BuildFrame

\* kbbi.py:188-253 and 392-410: the loop over what was read; its exception ends the
\* call: 500 from the offline stage (632) and from kbbi_reload (700-701), while the
\* word-db stage catches it and the chain goes on
Fill(w) ==
    LET b == Builder(calls[w].kind)
        filled == IF b = "word" THEN WordDbIndex[calls[w].files] ELSE PartsFilled[calls[w].files]
    IN  /\ calls[w].pc = "fill"
        /\ IF filled.t = "raise"
           THEN /\ SetCall(w, IdleCall)
                /\ last' = Observe("call", w, <<>>, NoRemote,
                                   IF b = "word" THEN 0 ELSE 500,
                                   [error |-> "exception"], <<calls[w].kind>>, NoRecord)
                /\ builds' = IF calls[w].kind = "reload"
                             THEN [builds EXCEPT !.returned = Max({@, calls[w].mark})]
                             ELSE builds
                /\ UNCHANGED <<_kbbi_index, _KBBI_WORD_INDEX>>
           ELSE /\ SetCall(w, [calls[w] EXCEPT !.pc = IF b = "word" THEN "publish" ELSE "finalize",
                                               !.idx = filled])
                /\ SetGlobal(b, Visible(Global(b), filled))
                /\ UNCHANGED <<last, builds>>
        /\ UNCHANGED _KBBI_CACHE
        /\ BuildFrame

\* kbbi.py:256-257: v["lema"] = sorted(v["lema"])
Finalize(w) ==
    LET final == [t |-> "index", v |-> FinalizeIndex(calls[w].idx.v)]
    IN  /\ calls[w].pc = "finalize"
        /\ SetCall(w, [calls[w] EXCEPT !.pc = "publish", !.idx = final])
        /\ SetGlobal("index", Visible(_kbbi_index, final))
        /\ UNCHANGED <<_KBBI_CACHE, last, builds>>
        /\ BuildFrame

\* kbbi.py:259 and 411: the assignment to the global
Publish(w) ==
    LET b == Builder(calls[w].kind)
    IN  /\ calls[w].pc = "publish"
        /\ SetGlobal(b, calls[w].idx)
        /\ SetCall(w, [calls[w] EXCEPT !.pc = "return"])
        /\ builds' = IF b = "index" THEN [builds EXCEPT !.published = calls[w].loaded]
                     ELSE builds
        /\ UNCHANGED <<_KBBI_CACHE, last>>
        /\ BuildFrame

\* kbbi.py:186, 260, 390, 412: return of the global as it is now
Return(w) ==
    LET b == Builder(calls[w].kind)
    IN  /\ calls[w].pc = "return"
        /\ SetCall(w, [calls[w] EXCEPT !.pc = "read", !.got = Global(b),
                                       !.gotLoaded = builds.published])
        /\ UNCHANGED <<_KBBI_CACHE, _kbbi_index, _KBBI_WORD_INDEX, last, builds>>
        /\ BuildFrame

\* kbbi.py:633 idx.get(key_norm), 422 idx["by_key"], 699 len(idx): the caller reads
\* what it got; None raises
Read(w) ==
    LET got == calls[w].got
    IN  /\ calls[w].pc = "read"
        /\ calls[w].kind # "lookup"
        /\ SetCall(w, IdleCall)
        /\ last' = Observe("call", w, <<>>, NoRemote,
                           IF got.t # "none" THEN 200 ELSE IF calls[w].kind = "worddb" THEN 0
                           ELSE 500,
                           IF got.t = "none" THEN [error |-> "exception"]
                           ELSE [size |-> IF calls[w].kind = "worddb" THEN Len(got.by_key)
                                          ELSE Cardinality(DOMAIN got.v)],
                           <<calls[w].kind>>, NoRecord)
        /\ builds' = IF calls[w].kind = "reload"
                     THEN [builds EXCEPT !.returned = Max({@, calls[w].mark})]
                     ELSE builds
        /\ UNCHANGED <<_KBBI_CACHE, _kbbi_index, _KBBI_WORD_INDEX>>
        /\ BuildFrame

(***************************************************************************)
(* kbbi_cek from its cache lookup to its cache write, statement by         *)
(* statement, for a request that only the offline index can answer: the    *)
(* lookup of the cache (480-485), the builder steps above for               *)
(* _kbbi_build_index() (632), the read of the entry (633) and the write of  *)
(* the cache record (681).  kata and payload are locals of the request;    *)
(* seen and mark are history: the latest reload that had returned when the *)
(* request arrived, and the invalidations so far when it read the entry.   *)
(***************************************************************************)
\* a request for kata arrives and is admitted
StartLookup(w, kata) ==
    /\ calls[w].pc = "idle"
    /\ builds.started < MaxCalls
    /\ SetCall(w, [IdleCall EXCEPT !.pc = "cache", !.kind = "lookup", !.kata = kata,
                                   !.now_ts = now, !.start = builds.epoch,
                                   !.seen = builds.returned])
    /\ builds' = [builds EXCEPT !.started = @ + 1]
    /\ UNCHANGED <<_KBBI_CACHE, _kbbi_index, _KBBI_WORD_INDEX, last>>
    /\ BuildFrame

\* kbbi.py:480-485: a fresh record is served, flagged, and the request ends
CacheLookup(w) ==
    LET kata == calls[w].kata
        c == CacheGet(_kbbi_normalize(kata))
    IN  /\ calls[w].pc = "cache"
        /\ IF CacheFresh(c, calls[w].now_ts)
           THEN /\ SetCall(w, IdleCall)
                /\ last' = Observe("cek", w, kata, NoRemote, 200, CacheHitBody(c), <<>>, c)
           ELSE /\ SetCall(w, [calls[w] EXCEPT !.pc = "enter"])
                /\ UNCHANGED last
        /\ UNCHANGED <<_KBBI_CACHE, _kbbi_index, _KBBI_WORD_INDEX, builds>>
        /\ BuildFrame

\* kbbi.py:633-669: data = idx.get(key_norm); None for idx raises, no entry is the
\* 404 with its suggestions, an entry becomes the payload of lines 671-680
ReadEntry(w) ==
    LET kata == calls[w].kata
        key_norm == _kbbi_normalize(kata)
        got == calls[w].got
        r == TryOffline(kata, key_norm, KBBI_SIMPLE_AVAILABLE, WordIndexNow, got)
    IN  /\ calls[w].pc = "read"
        /\ calls[w].kind = "lookup"
        /\ IF got.t = "none"
           THEN /\ SetCall(w, IdleCall)
                /\ last' = Observe("cek", w, kata, NoRemote, 500,
                                   [error |-> "Internal Server Error"], <<"offline">>, NoRecord)
                /\ UNCHANGED _KBBI_WORD_INDEX
           ELSE IF r.t = "hit"
           THEN /\ SetCall(w, [calls[w] EXCEPT !.pc = "store", !.payload = r.body,
                                               !.mark = builds.epoch])
                /\ UNCHANGED <<last, _KBBI_WORD_INDEX>>
           ELSE /\ SetCall(w, IdleCall)
                /\ last' = Observe("cek", w, kata, NoRemote, 404, r.body, <<"offline">>,
                                   NoRecord)
                /\ _KBBI_WORD_INDEX' = Memo(_KBBI_WORD_INDEX, WordIndexNow)
        /\ UNCHANGED <<_KBBI_CACHE, _kbbi_index, builds>>
        /\ BuildFrame

\* kbbi.py:681-686: _KBBI_CACHE[key_norm] = {"ts": now_ts, "payload": payload}
StoreResult(w) ==
    LET kata == calls[w].kata
        key_norm == _kbbi_normalize(kata)
    IN  /\ calls[w].pc = "store"
        /\ _KBBI_CACHE' = CachePut(key_norm, calls[w].now_ts, calls[w].payload)
        /\ builds' = [builds EXCEPT !.cachedAt = Put(@, key_norm, calls[w].mark)]
        /\ SetCall(w, IdleCall)
        /\ last' = Observe("cek", w, kata, NoRemote, 200, calls[w].payload, <<"offline">>,
                           NoRecord)
        /\ UNCHANGED <<_kbbi_index, _KBBI_WORD_INDEX>>
        /\ BuildFrame

(***************************************************************************)
(* The rate limiter of kbbi_cek statement by statement (465-471), for      *)
(* requests that threads of the server run at the same time.  now_ts and   *)
(* bucket are the locals of the request.                                   *)
(***************************************************************************)
\* a request of ip arrives with a parameter that is not blank
StartAdmit(w, ip) ==
    /\ calls[w].pc = "idle"
    /\ builds.started < MaxCalls
    /\ SetCall(w, [IdleCall EXCEPT !.pc = "get", !.kind = "admit", !.ip = ip])
    /\ builds' = [builds EXCEPT !.started = @ + 1]
    /\ UNCHANGED <<_RATE_BUCKET, _KBBI_CACHE, _kbbi_index, _KBBI_WORD_INDEX, last, partFiles,
                   wordDbFiles, resolved, cleared, admitted>>
    /\ UNCHANGED <<KBBI_ONLINE_AVAILABLE, KBBI_SIMPLE_AVAILABLE, now>>

AdmitFrame ==
    UNCHANGED <<KBBI_ONLINE_AVAILABLE, KBBI_SIMPLE_AVAILABLE, now, _KBBI_CACHE, _kbbi_index,
                _KBBI_WORD_INDEX, partFiles, wordDbFiles, resolved, cleared, builds>>

\* kbbi.py:465-466: now_ts = time.time(); bucket = _RATE_BUCKET.get(ip, [])
GetBucket(w) ==
    /\ calls[w].pc = "get"
    /\ SetCall(w, [calls[w] EXCEPT !.pc = "prune", !.now_ts = now,
                                   !.bucket = BucketOf(calls[w].ip)])
    /\ UNCHANGED <<_RATE_BUCKET, last, admitted>>
    /\ AdmitFrame

\* kbbi.py:467: the list comprehension gives a list of the request's own
Prune(w) ==
    /\ calls[w].pc = "prune"
    /\ SetCall(w, [calls[w] EXCEPT !.pc = "test",
                                   !.bucket = PruneBucket(calls[w].bucket, calls[w].now_ts)])
    /\ UNCHANGED <<_RATE_BUCKET, last, admitted>>
    /\ AdmitFrame

\* kbbi.py:468-469: the request is refused, or let through
TestLimit(w) ==
    /\ calls[w].pc = "test"
    /\ IF RateExceeded(calls[w].bucket)
       THEN /\ SetCall(w, IdleCall)
            /\ last' = Observe("cek", calls[w].ip, <<>>, NoRemote, 429,
                               [error |-> "Terlalu banyak permintaan, coba lagi nanti."],
                               <<>>, NoRecord)
            /\ UNCHANGED admitted
       ELSE /\ SetCall(w, [calls[w] EXCEPT !.pc = "append"])
            /\ admitted' = Put(admitted, calls[w].ip,
                               Append(AdmittedOf(calls[w].ip), calls[w].now_ts))
            /\ UNCHANGED last
    /\ UNCHANGED _RATE_BUCKET
    /\ AdmitFrame

\* kbbi.py:470: bucket.append(now_ts)
AppendStamp(w) ==
    /\ calls[w].pc = "append"
    /\ SetCall(w, [calls[w] EXCEPT !.pc = "store",
                                   !.bucket = Append(calls[w].bucket, calls[w].now_ts)])
    /\ UNCHANGED <<_RATE_BUCKET, last, admitted>>
    /\ AdmitFrame

\* kbbi.py:471: _RATE_BUCKET[ip] = bucket; the request goes on to the cache
StoreBucket(w) ==
    /\ calls[w].pc = "store"
    /\ _RATE_BUCKET' = Put(_RATE_BUCKET, calls[w].ip, calls[w].bucket)
    /\ SetCall(w, IdleCall)
    /\ last' = Observe("call", calls[w].ip, <<>>, NoRemote, 0, None, <<"admit">>, NoRecord)
    /\ UNCHANGED admitted
    /\ AdmitFrame

(***************************************************************************)
(* The service after import, and its behaviours.                           *)
(***************************************************************************)
Started ==
    /\ now = 0
    /\ _RATE_BUCKET = EmptyDict
    /\ _KBBI_CACHE = EmptyDict
    /\ _kbbi_index = NoIndex
    /\ _KBBI_WORD_INDEX = NoWordIndex
    /\ last = Observe("init", "", <<>>, NoRemote, 0, None, <<>>, NoRecord)
    /\ resolved = EmptyDict
    /\ cleared = {}
    /\ admitted = EmptyDict
    /\ calls = [w \in Workers |-> IdleCall]
    /\ builds = NoBuilds

\* Spec: one lookup of any query against any outcome of the remote source, with
\* either import present or absent, between reloads, statistics and rewrites of
\* the corpora
Init ==
    /\ KBBI_ONLINE_AVAILABLE \in BOOLEAN
    /\ KBBI_SIMPLE_AVAILABLE \in BOOLEAN
    /\ partFiles \in PartIds
    /\ wordDbFiles \in WordDbIds
    /\ Started

Lookup ==
    \E ip \in Clients, kata \in Queries, remote \in RemoteOutcomes :
        /\ Len(AdmittedOf(ip)) < MaxBurst
        /\ Cek(ip, kata, remote)

Next ==
    \/ Lookup
    \/ Reload
    \/ Stats
    \/ \E id \in PartIds : WriteParts(id)
    \/ \E id \in WordDbIds : WriteWordDb(id)

Spec == Init /\ [][Next]_vars

\* SpecCache: repeated lookups of two words while the clock runs past the TTL,
\* with reloads and a rewrite of the offline corpus in between
CacheBurst == 2

CacheQueries == {W_buku, W_ruh}

CacheRemotes ==
    { Remote("serial", JDict(<< <<"entri", JList(<< Entry(W_ruang, <<"n">>, Text_a) >>)>> >>), <<>>),
      Remote("error", None, <<>>) }

InitCache ==
    /\ KBBI_ONLINE_AVAILABLE = TRUE
    /\ KBBI_SIMPLE_AVAILABLE = TRUE
    /\ partFiles = "large"
    /\ wordDbFiles = "one"
    /\ Started

LookupCache ==
    \E ip \in Clients, kata \in CacheQueries, remote \in CacheRemotes :
        /\ Len(AdmittedOf(ip)) < CacheBurst
        /\ Cek(ip, kata, remote)

NextCache ==
    \/ LookupCache
    \/ Reload
    \/ \E t \in Times : Tick(t)
    \/ \E id \in PartIds : WriteParts(id)

SpecCache == InitCache /\ [][NextCache]_vars

\* SpecRate: one client repeating one lookup until it is refused, while the clock
\* runs past the window
RateSteps == 2

RateTimes == {k * Step : k \in 0..RateSteps}

InitRate ==
    /\ KBBI_ONLINE_AVAILABLE = TRUE
    /\ KBBI_SIMPLE_AVAILABLE = TRUE
    /\ partFiles = "small"
    /\ wordDbFiles = "one"
    /\ Started

LookupRate == \E ip \in Clients : Cek(ip, W_buku, Remote("error", None, <<>>))

NextRate ==
    \/ LookupRate
    \/ \E t \in RateTimes : Tick(t)

SpecRate == InitRate /\ [][NextRate]_vars

\* SpecReject: one client sending the parameter in every form, absent, empty, blank,
\* a word that is found or one that is not, until the limiter refuses it, while
\* the clock runs past the window
RawArgs == {None, JStr(<<>>), JStr(<<" ">>), JStr(<<"\t", " ">>), JStr(W_buku), JStr(W_ruzz)}

\* request.args.get("kata") or ""
KataParam(arg) == IF Truthy(arg) THEN arg.v ELSE <<>>

LookupReject ==
    \E ip \in Clients, arg \in RawArgs : Cek(ip, KataParam(arg), Remote("error", None, <<>>))

NextReject ==
    \/ LookupReject
    \/ \E t \in RateTimes : Tick(t)

SpecReject == InitRate /\ [][NextReject]_vars

\* SpecNormalize: the normalizer applied to every short text of whitespace,
\* punctuation, underscores, letters of both cases and digits, and again to its
\* own results
NormLen == 4

NormChars == {"\t", " ", ".", "_", "B", "a", "1"}

Texts == UNION {[1..n -> NormChars] : n \in 0..NormLen}

InitNormalize ==
    /\ KBBI_ONLINE_AVAILABLE = TRUE
    /\ KBBI_SIMPLE_AVAILABLE = TRUE
    /\ partFiles = "small"
    /\ wordDbFiles = "one"
    /\ now = 0
    /\ _RATE_BUCKET = EmptyDict
    /\ _KBBI_CACHE = EmptyDict
    /\ _kbbi_index = NoIndex
    /\ _KBBI_WORD_INDEX = NoWordIndex
    /\ \E s \in Texts : last = Observe("text", "", s, NoRemote, 0, None, <<>>, NoRecord)
    /\ resolved = EmptyDict
    /\ cleared = {}
    /\ admitted = EmptyDict
    /\ calls = [w \in Workers |-> IdleCall]
    /\ builds = NoBuilds

\* a call of _kbbi_normalize on the text, or on the result of the call before
Normalize ==
    LET s == IF last.op = "normalize" THEN last.body.out ELSE last.kata
    IN  /\ last' = Observe("normalize", "", s, NoRemote, 0, [out |-> _kbbi_normalize(s)],
                           <<>>, NoRecord)
        /\ UNCHANGED <<KBBI_ONLINE_AVAILABLE, KBBI_SIMPLE_AVAILABLE, now, _RATE_BUCKET,
                       _KBBI_CACHE, _kbbi_index, _KBBI_WORD_INDEX, partFiles, wordDbFiles,
                       resolved, cleared, admitted, calls, builds>>

NextNormalize == Normalize

SpecNormalize == InitNormalize /\ [][NextNormalize]_vars

\* SpecBuild: two worker threads run up to MaxCalls calls, interleaved statement
\* by statement, while the offline corpus on disk is rewritten
BuildPartIds == {"small", "blank"}

InitBuild ==
    /\ KBBI_ONLINE_AVAILABLE = FALSE
    /\ KBBI_SIMPLE_AVAILABLE = FALSE
    /\ partFiles = "small"
    /\ wordDbFiles = "clash"
    /\ Started

NextBuild ==
    \/ \E w \in Workers, kind \in CallKinds : StartCall(w, kind)
    \/ \E w \in Workers : Invalidate(w)
    \/ \E w \in Workers : ClearCache(w)
    \/ \E w \in Workers : Enter(w)
    \/ \E w \in Workers : LoadCorpus(w)
    \/ \E w \in Workers : Fill(w)
    \/ \E w \in Workers : Finalize(w)
    \/ \E w \in Workers : Publish(w)
    \/ \E w \in Workers : Return(w)
    \/ \E w \in Workers : Read(w)
    \/ \E id \in BuildPartIds : WriteParts(id)

SpecBuild == InitBuild /\ [][NextBuild]_vars

\* SpecSame: lookups of words typed in two ways that normalize alike, with the
\* remote source present or absent, answering or failing, while the clock runs past
\* the TTL and the index is reloaded
SameQueries == {W_buku, <<"B", "u", "k", "u", ".">>, <<"R", "u", "a", "n", "g">>}

InitSame ==
    /\ KBBI_ONLINE_AVAILABLE \in BOOLEAN
    /\ KBBI_SIMPLE_AVAILABLE = TRUE
    /\ partFiles = "small"
    /\ wordDbFiles = "one"
    /\ Started

LookupSame ==
    \E ip \in Clients, kata \in SameQueries, remote \in CacheRemotes :
        /\ Len(AdmittedOf(ip)) < CacheBurst
        /\ Cek(ip, kata, remote)

NextSame ==
    \/ LookupSame
    \/ Reload
    \/ \E t \in Times : Tick(t)

SpecSame == InitSame /\ [][NextSame]_vars

\* SpecStale: two worker threads serve up to MaxCalls requests, lookups of one word
\* and reloads, interleaved statement by statement, while the corpus files change
StaleQueries == {W_ruang}

NextStale ==
    \/ \E w \in Workers, kata \in StaleQueries : StartLookup(w, kata)
    \/ \E w \in Workers : StartCall(w, "reload")
    \/ \E w \in Workers : CacheLookup(w)
    \/ \E w \in Workers : Invalidate(w)
    \/ \E w \in Workers : ClearCache(w)
    \/ \E w \in Workers : Enter(w)
    \/ \E w \in Workers : LoadCorpus(w)
    \/ \E w \in Workers : Fill(w)
    \/ \E w \in Workers : Finalize(w)
    \/ \E w \in Workers : Publish(w)
    \/ \E w \in Workers : Return(w)
    \/ \E w \in Workers : Read(w)
    \/ \E w \in Workers : ReadEntry(w)
    \/ \E w \in Workers : StoreResult(w)
    \/ \E id \in BuildPartIds : WriteParts(id)

SpecStale == InitBuild /\ [][NextStale]_vars

\* SpecBucket: two worker threads serve up to MaxCalls requests of one client,
\* interleaved statement by statement, on an empty bucket or on one that earlier
\* requests have filled up to one below the limit, while the clock runs
InitBucket ==
    /\ KBBI_ONLINE_AVAILABLE = TRUE
    /\ KBBI_SIMPLE_AVAILABLE = TRUE
    /\ partFiles = "small"
    /\ wordDbFiles = "one"
    /\ now = 0
    /\ \E n \in {0, _RATE_LIMIT_MAX - 1}, ip \in Clients :
          /\ _RATE_BUCKET = IF n = 0 THEN EmptyDict ELSE Put(EmptyDict, ip, [i \in 1..n |-> 0])
          /\ admitted = _RATE_BUCKET
    /\ _KBBI_CACHE = EmptyDict
    /\ _kbbi_index = NoIndex
    /\ _KBBI_WORD_INDEX = NoWordIndex
    /\ last = Observe("init", "", <<>>, NoRemote, 0, None, <<>>, NoRecord)
    /\ resolved = EmptyDict
    /\ cleared = {}
    /\ calls = [w \in Workers |-> IdleCall]
    /\ builds = NoBuilds

NextBucket ==
    \/ \E w \in Workers, ip \in Clients : StartAdmit(w, ip)
    \/ \E w \in Workers : GetBucket(w)
    \/ \E w \in Workers : Prune(w)
    \/ \E w \in Workers : TestLimit(w)
    \/ \E w \in Workers : AppendStamp(w)
    \/ \E w \in Workers : StoreBucket(w)
    \/ \E t \in RateTimes : Tick(t)

SpecBucket == InitBucket /\ [][NextBucket]_vars

\* SpecCorpora: one lookup, the reloads and the statistics over corpora of unusual
\* shape, without the remote source
CorpusPartIds == OddPartIds \cup {"small"}

CorpusWordDbIds == OddWordDbIds \cup {"one"}

CorpusQueries == {<<"R", "u", "a", "n", "g">>, W_ruh, <<"r", "u">>, <<"_">>}

InitCorpora ==
    /\ KBBI_ONLINE_AVAILABLE = FALSE
    /\ KBBI_SIMPLE_AVAILABLE \in BOOLEAN
    /\ partFiles \in CorpusPartIds
    /\ wordDbFiles \in CorpusWordDbIds
    /\ Started

LookupCorpora ==
    \E ip \in Clients, kata \in CorpusQueries :
        /\ Len(AdmittedOf(ip)) < MaxBurst
        /\ Cek(ip, kata, NoRemote)

NextCorpora ==
    \/ LookupCorpora
    \/ Reload
    \/ Stats
    \/ \E id \in CorpusPartIds : WriteParts(id)
    \/ \E id \in CorpusWordDbIds : WriteWordDb(id)

SpecCorpora == InitCorpora /\ [][NextCorpora]_vars

(***************************************************************************)
(* The properties.  They read the last operation (last), the state it left *)
(* and the histories.                                                      *)
(***************************************************************************)
\* a lookup that passed the parameter check and the rate limiter
AdmittedLookup(o) == o.op = "cek" /\ o.status \notin {400, 429}

\* a lookup that missed the cache and ended with a payload
ResolvedLookup(o) == AdmittedLookup(o) /\ o.status = 200 /\ ~o.body.cache_hit

\* the remote source answered the lookup with a serialization the engine reshaped
RemoteMatched(o) == o.remote.kind = "serial" /\ ~OnlineRaises(o.remote.serial)

\* the word-db index has a record of the word
WordDbMatched(kata) ==
    /\ WordIndexNow.t = "index"
    /\ Truthy(_kbbi_lookup_word_db(WordIndexNow, kata))
    /\ ~TransformRaises(_kbbi_lookup_word_db(WordIndexNow, kata))

\* the built-in corpus has the word
BuiltinMatched(kata) == KBBI_SIMPLE_AVAILABLE /\ normalize_kata(kata) \in DOMAIN KBBI_DATA

\* the offline index has the word
OfflineMatched(kata) == IndexNow.t = "index" /\ _kbbi_normalize(kata) \in DOMAIN IndexNow.v

\* the order of the sources as the specification fixes it, with their provenance
Priority ==
    << [src |-> "online", sumber |-> "kbbi-online"],
       [src |-> "worddb", sumber |-> "kbbi-worddb"],
       [src |-> "simple", sumber |-> "kbbi-simple"],
       [src |-> "offline", sumber |-> "kbbi-offline"] >>

Matched(n, o) ==
    CASE n = 1 -> RemoteMatched(o)
      [] n = 2 -> WordDbMatched(o.kata)
      [] n = 3 -> BuiltinMatched(o.kata)
      [] n = 4 -> OfflineMatched(o.kata)

NoDuplicates(xs) == \A i, j \in 1..Len(xs) : xs[i] = xs[j] => i = j

BuiltinSuggestions(kata) == IF KBBI_SIMPLE_AVAILABLE THEN get_saran(kata) ELSE <<>>

\* the remote source was asked and signalled definitive not-found
RemoteNotFound(o) == o.op = "cek" /\ o.remote.kind = "TidakDitemukan"

\* C2: when the remote source is available and signals definitive not-found, the
\* lookup returns 404 with valid=false and the remote's suggestions, or the built-in
\* corpus's suggestions when the remote attached none; only the remote source is
\* consulted, and the cache and the two indices stay as they were.
C2_RemoteNotFoundIsTerminal ==
    [][ RemoteNotFound(last') =>
           /\ last'.status = 404
           /\ last'.body.valid = FALSE
           /\ last'.body.saran = IF last'.remote.saran # <<>> THEN last'.remote.saran
                                 ELSE BuiltinSuggestions(last'.kata)
           /\ last'.consulted = <<"online">>
           /\ UNCHANGED <<_KBBI_CACHE, _kbbi_index, _KBBI_WORD_INDEX>> ]_vars

\* the remote source said not-found, with no suggestions, for a word that the
\* built-in corpus has
C2_Witness ==
    /\ RemoteNotFound(last)
    /\ last.remote.saran = <<>>
    /\ BuiltinMatched(last.kata)
    /\ last.body.saran # <<>>

\* the serialization has not the shape {entri: [...]} the engine reshapes
UnexpectedShape(serial) == serial.t # "dict" \/ get(serial, "entri").t # "list"

\* the remote call failed otherwise than by definitive not-found
RemoteFailed(o) ==
    /\ o.op = "cek"
    /\ \/ o.remote.kind = "error"
       \/ o.remote.kind = "serial" /\ UnexpectedShape(o.remote.serial)

\* C3: when the remote call fails otherwise than by definitive not-found (an error,
\* a serialization of unexpected shape), the word-db source is consulted and the
\* response is the one the chain gives from the word-db on.
C3_RemoteFailureFallsThrough ==
    RemoteFailed(last) =>
        /\ Contains(last.consulted, "worddb")
        /\ last.body = RunChain(last.kata, NoRemote, 2, <<>>, WordIndexNow, IndexNow).body

\* the word is in the built-in corpus and in neither the word-db nor the offline index
OnlyBuiltin(kata) == BuiltinMatched(kata) /\ ~WordDbMatched(kata) /\ ~OfflineMatched(kata)

C5_SuggestionsCappedAndDistinct ==
    (last.op = "cek" /\ last.status = 404) =>
        /\ last.body.valid = FALSE
        /\ Len(last.body.saran) <= SARAN_LIMIT
        /\ NoDuplicates(last.body.saran)

\* the key under which the cache holds the lookup
KeyOf(o) == _kbbi_normalize(o.kata)

\* C6: when a query has been resolved to a payload and the same query is admitted
\* again less than the TTL later, with no reload in between, the response is that
\* payload with cache_hit=true, no source is consulted, and the cache and the
\* indices stay as they were.
C6_RepeatWithinTTLIsCacheHit ==
    [][ (/\ AdmittedLookup(last')
         /\ KeyOf(last') \in DOMAIN resolved
         /\ now - resolved[KeyOf(last')].ts < _KBBI_CACHE_TTL) =>
           /\ last'.status = 200
           /\ last'.body = [resolved[KeyOf(last')].body EXCEPT !.cache_hit = TRUE]
           /\ last'.body.cache_hit = TRUE
           /\ last'.consulted = <<>>
           /\ UNCHANGED <<_KBBI_CACHE, _kbbi_index, _KBBI_WORD_INDEX>> ]_vars

\* the same query was answered from the cache at a later reading of the clock than
\* the one at which it was resolved
C6_Witness ==
    /\ AdmittedLookup(last)
    /\ last.status = 200
    /\ last.body.cache_hit
    /\ last.body.kata = last.kata
    /\ last.consulted = <<>>
    /\ now > last.c.ts
    /\ resolved[KeyOf(last)].ts = last.c.ts

\* C7: a lookup that finds a record stored at t is answered from it exactly when
\* now - t < TTL; when now - t >= TTL the chain runs from its first source, and a
\* payload it gives replaces the record, with the time of the lookup.
C7_TTLBoundary ==
    (AdmittedLookup(last) /\ last.c.t = "rec") =>
        IF now - last.c.ts < _KBBI_CACHE_TTL
        THEN /\ last.status = 200
             /\ last.body.cache_hit
             /\ last.consulted = <<>>
             /\ _KBBI_CACHE[KeyOf(last)] = last.c
        ELSE /\ last.consulted # <<>>
             /\ last.consulted[1] = IF KBBI_ONLINE_AVAILABLE THEN "online" ELSE "worddb"
             /\ last.status = 200 =>
                   /\ ~last.body.cache_hit
                   /\ _KBBI_CACHE[KeyOf(last)] = [t |-> "rec", ts |-> now, payload |-> last.body]

\* a record exactly one TTL old was found, the chain ran and its payload replaced it
C7_Witness ==
    /\ AdmittedLookup(last)
    /\ last.c.t = "rec"
    /\ now - last.c.ts = _KBBI_CACHE_TTL
    /\ last.status = 200
    /\ _KBBI_CACHE[KeyOf(last)].ts = now

\* C8: a reload leaves the cache empty and the offline index as built from the
\* corpus on disk, and returns the number of keys of that index; the first lookup
\* admitted after a reload, for a key the reload removed from the cache, is not
\* answered from the cache and consults the chain.
C8_ReloadInvalidates ==
    [][ /\ last'.op = "reload" =>
             /\ _KBBI_CACHE' = EmptyDict
             /\ last'.status = 200 =>
                   LET rebuilt == BuildIndex(Parts(partFiles))
                   IN  /\ _kbbi_index' = rebuilt
                       /\ last'.body.index_size = Cardinality(DOMAIN rebuilt.v)
        /\ (AdmittedLookup(last') /\ KeyOf(last') \in cleared) =>
             /\ last'.consulted # <<>>
             /\ last'.status = 200 => ~last'.body.cache_hit ]_vars

\* a reload ran on a cache that held a record, after the corpus on disk had changed
\* under the index in memory
C8_Witness ==
    /\ last.op = "reload"
    /\ last.status = 200
    /\ cleared # {}
    /\ _KBBI_CACHE = EmptyDict
    /\ partFiles = "small"
    /\ last.body.index_size = Cardinality(DOMAIN _kbbi_index.v)
    /\ last.body.index_size < Cardinality(DOMAIN PartsIndex["large"].v)

\* C9: a non-empty lookup of a client is admitted exactly when fewer than 60 of the
\* client's admitted requests are less than 60 s old; the 61st request inside one
\* window is the first to be answered 429.
C9_RateLimit ==
    [][ (last'.op = "cek" /\ last'.status # 400) =>
           (last'.status # 429 <=>
               Len(Recent(AdmittedOf(last'.ip), now)) < _RATE_LIMIT_MAX) ]_vars

\* the 61st request of a window that spans two readings of the clock was denied
C9_Witness ==
    /\ last.op = "cek"
    /\ last.status = 429
    /\ Len(AdmittedOf(last.ip)) = _RATE_LIMIT_MAX
    /\ AdmittedOf(last.ip)[1] < now

\* C10: a lookup answered 429 leaves the buckets, the cache and the two indices as
\* they were, reads no cache record and consults no source.
C10_DenialChangesNothing ==
    [][ (last'.op = "cek" /\ last'.status = 429) =>
           /\ UNCHANGED <<_RATE_BUCKET, _KBBI_CACHE, _kbbi_index, _KBBI_WORD_INDEX>>
           /\ last'.c = NoRecord
           /\ last'.consulted = <<>> ]_vars

\* a request was denied while the cache held the answer and the offline index had
\* never been built
C10_Witness ==
    /\ last.op = "cek"
    /\ last.status = 429
    /\ KeyOf(last) \in DOMAIN _KBBI_CACHE
    /\ _kbbi_index.t = "none"
    /\ Len(BucketOf(last.ip)) = _RATE_LIMIT_MAX

\* the parameter is absent, empty or made of whitespace only
Blank(arg) == arg = None \/ \A i \in 1..Len(arg.v) : arg.v[i] \in Whitespace

\* C11: a lookup whose parameter is absent, empty or whitespace only is answered
\* 400, and only such a lookup is; the answer is given whatever the state of the
\* client's bucket, reads no cache record, consults no source, and leaves the
\* buckets, the cache and both indices as they were.
C11_BlankQueryRejectedFirst ==
    [][ /\ \A arg \in RawArgs : Blank(arg) <=> strip(KataParam(arg)) = <<>>
        /\ (last'.op = "cek" /\ (last'.kata = <<>> \/ last'.status = 400)) =>
              /\ last'.kata = <<>>
              /\ last'.status = 400
              /\ last'.consulted = <<>>
              /\ last'.c = NoRecord
              /\ UNCHANGED <<_RATE_BUCKET, _KBBI_CACHE, _kbbi_index, _KBBI_WORD_INDEX>> ]_vars

\* a blank query was rejected while the client's bucket was full and the cache held
\* a record
C11_Witness ==
    /\ last.op = "cek"
    /\ last.status = 400
    /\ last.kata = <<>>
    /\ Len(Recent(AdmittedOf(last.ip), now)) = _RATE_LIMIT_MAX
    /\ Len(BucketOf(last.ip)) = _RATE_LIMIT_MAX
    /\ _KBBI_CACHE # EmptyDict

\* the top-level keys that two shards of the word database both hold
SharedKeys(files) ==
    {k \in UNION {{f.obj.v[j][1] : j \in 1..Len(f.obj.v)} :
                     f \in {g \in Range(files) : g.readable /\ g.obj.t = "dict"}} :
        \E a, b \in 1..Len(files) :
            /\ a < b
            /\ files[a].readable /\ files[a].obj.t = "dict" /\ HasKey(files[a].obj, k)
            /\ files[b].readable /\ files[b].obj.t = "dict" /\ HasKey(files[b].obj, k)}

\* the record under k in the first shard, in the order of the file names, that has k
FirstShardRecord(files, k) ==
    LET holders == {a \in 1..Len(files) :
                       files[a].readable /\ files[a].obj.t = "dict" /\ HasKey(files[a].obj, k)}
    IN  get(files[Min(holders)].obj, k)

\* C12: when two shards of the word database hold the same top-level key, the
\* merged database and the word-db lookup of that key give the record of the
\* shard whose file name sorts first
C12_FirstShardWins ==
    \A id \in CorpusWordDbIds :
        (_KBBI_WORD_INDEX.t = "index" /\ _KBBI_WORD_INDEX = WordDbIndex[id]) =>
            \A k \in SharedKeys(WordDb(id)) :
                /\ DictGet(_KBBI_WORD_INDEX.raw, k) = FirstShardRecord(WordDb(id), k)
                /\ _kbbi_lookup_word_db(_KBBI_WORD_INDEX, k) = FirstShardRecord(WordDb(id), k)

\* the merge alone keeps the first shard's record
C12_MergeKeepsFirst ==
    \A id \in CorpusWordDbIds :
        (_KBBI_WORD_INDEX.t = "index" /\ _KBBI_WORD_INDEX = WordDbIndex[id]) =>
            \A k \in SharedKeys(WordDb(id)) :
                DictGet(_KBBI_WORD_INDEX.raw, k) = FirstShardRecord(WordDb(id), k)

\* C13: normalizing is idempotent: a result of the normalizer, normalized again,
\* is unchanged
C13_NormalizeIdempotent ==
    last.op = "normalize" => _kbbi_normalize(last.body.out) = last.body.out

\* the normalizer was applied to one of its own results, two lower-case words
\* with a space between, which no text of the inputs is
C13_Witness ==
    /\ last.op = "normalize"
    /\ last.kata = <<"b", " ", "a">>
    /\ last.kata \notin Texts
    /\ last.body.out = last.kata

Letters == {"a", "b", "g", "h", "i", "j", "k", "m", "n", "p", "r", "u", "z"}

Digits == {"1"}

\* the characters the normalizer counts as neither word characters nor whitespace
Punctuation == {"."}

\* C14: a result of the normalizer holds only lower-case letters, digits and
\* single spaces, it neither starts nor ends with a space, and it is empty when
\* the text holds nothing but whitespace, underscores and punctuation
C14_NormalizeAlphabet ==
    last.op = "normalize" =>
        LET out == last.body.out
        IN  /\ \A i \in 1..Len(out) : out[i] \in Letters \cup Digits \cup {" "}
            /\ \A i \in 1..Len(out) - 1 : ~(out[i] = " " /\ out[i + 1] = " ")
            /\ out # <<>> => out[1] # " " /\ out[Len(out)] # " "
            /\ (\A i \in 1..Len(last.kata) :
                    last.kata[i] \in Whitespace \cup {"_"} \cup Punctuation) => out = <<>>

\* an upper-case letter, punctuation and an underscore went in, a word came out
C14_Witness ==
    /\ last.op = "normalize"
    /\ Contains(last.kata, "B") /\ Contains(last.kata, ".") /\ Contains(last.kata, "_")
    /\ Contains(last.kata, " ")
    /\ last.body.out = <<"b">>

\* only underscores, punctuation and whitespace went in, nothing came out
C14_WitnessEmpty ==
    /\ last.op = "normalize"
    /\ last.kata = <<"_", ".", " ", "_">>
    /\ last.body.out = <<>>

\* k is a result of the normalizer and not the empty string
NormalKey(k) == k # <<>> /\ _kbbi_normalize(k) = k

\* the names of the embedded entries of a word-db record
LemmaNames(rec) ==
    LET ents == IF RecEntri(rec).t = "list" THEN RecEntri(rec).v ELSE <<>>
        names == {Or2(get(ent, "nama"), get(ent, "lema")) : ent \in {x \in Range(ents) : x.t = "dict"}}
    IN  {e.v : e \in {x \in names : x.t = "str"}}

\* C15: every key of the offline index and of the word-db mappings by_key,
\* by_lema and orig_key is a non-empty result of the normalizer, and what is
\* filed under a key is a name that normalizes to that key: a name that
\* normalizes to the empty string is filed nowhere
C15_IndexKeysNormalized ==
    LET w == _KBBI_WORD_INDEX
    IN  /\ \A k \in DOMAIN _kbbi_index.v :
              /\ NormalKey(k)
              /\ \A i \in 1..Len(_kbbi_index.v[k].lema) :
                    _kbbi_normalize(_kbbi_index.v[k].lema[i]) = k
        /\ \A j \in 1..Len(w.by_key) :
              /\ NormalKey(w.by_key[j][1])
              /\ \E n \in 1..Len(w.raw) :
                    /\ _kbbi_normalize(w.raw[n][1]) = w.by_key[j][1]
                    /\ w.raw[n][2] = w.by_key[j][2]
        /\ \A j \in 1..Len(w.orig_key) :
              /\ NormalKey(w.orig_key[j][1])
              /\ _kbbi_normalize(w.orig_key[j][2]) = w.orig_key[j][1]
              /\ DictHas(w.raw, w.orig_key[j][2])
        /\ \A j \in 1..Len(w.by_lema) :
              /\ NormalKey(w.by_lema[j][1])
              /\ \E name \in LemmaNames(w.by_lema[j][2]) :
                    _kbbi_normalize(name) = w.by_lema[j][1]

\* both indices were built from corpora in which most names normalize to the
\* empty string: two of the five entries and one of the three records are
\* indexed by key, one of the three lemmas by lemma
C15_Witness ==
    /\ _kbbi_index = PartsIndex["blank"]
    /\ Len(_kbbi_load_all_parts(Parts("blank"))) = 5
    /\ DOMAIN _kbbi_index.v = {<<"r", "u", " ", "h">>, W_ruh}
    /\ _KBBI_WORD_INDEX = WordDbIndex["blank"]
    /\ Len(_KBBI_WORD_INDEX.raw) = 3
    /\ Len(_KBBI_WORD_INDEX.by_key) = 1 /\ Len(_KBBI_WORD_INDEX.orig_key) = 1
    /\ Len(_KBBI_WORD_INDEX.by_lema) = 1

\* C16: no lookup returns a payload without the valid discriminator, whatever
\* the outcome: a result of any source, a cache hit, not-found or a rejection
C16_EveryPayloadHasValid ==
    last.op = "cek" => "valid" \in DOMAIN last.body

\* C16, amended: a result or a cache hit (200) carries valid = TRUE and not-found
\* (404) carries valid = FALSE; the rejections of a blank parameter (400) and of
\* the rate limiter (429) carry an error message and no discriminator
C16_ValidOnResultsAndNotFound ==
    last.op = "cek" =>
        /\ last.status = 200 => "valid" \in DOMAIN last.body /\ last.body.valid = TRUE
        /\ last.status = 404 => "valid" \in DOMAIN last.body /\ last.body.valid = FALSE
        /\ last.status \in {400, 429} => DOMAIN last.body = {"error"}

\* after results, cache hits and a not-found, the limiter refuses a request with
\* a body that has no discriminator
C16_Witness ==
    /\ last.op = "cek" /\ last.status = 429
    /\ "valid" \notin DOMAIN last.body
    /\ _KBBI_CACHE # EmptyDict
    /\ _kbbi_index.t = "index"

\* C17: whatever the shape of the records in the corpus shards, no error of the
\* ingestion or of the building of either index reaches the caller of the
\* lookup: a lookup that is let through returns a result or not-found
C17_CorpusErrorsNeverPropagate ==
    (last.op = "cek" /\ last.status \notin {400, 429}) =>
        /\ last.status \in {200, 404}
        /\ "valid" \in DOMAIN last.body

\* C18: when several callers race on first access to an index that is not built,
\* the corpus is loaded and the index built once, and without an invalidation
\* never a second time: since the last invalidation each builder has read its
\* corpus at most once
C18_BuiltOncePerInvalidation ==
    /\ builds.loads.index <= 1
    /\ builds.loads.word <= 1

\* the indices a builder run alone gives for the corpora of SpecBuild
CompleteIndices == {PartsIndex[id] : id \in BuildPartIds}

CompleteWordIndices == {WordDbIndex[id] : id \in {"clash"}}

\* C19: under any interleaving the published offline index and word-db index are
\* each absent or complete, every entry indexed and the lemma variants sorted
\* lists, and so is what a builder returns to its caller
C19_PublishedIndexComplete ==
    /\ _kbbi_index = NoIndex \/ _kbbi_index \in CompleteIndices
    /\ _KBBI_WORD_INDEX = NoWordIndex \/ _KBBI_WORD_INDEX \in CompleteWordIndices
    /\ \A w \in Workers :
          calls[w].pc = "read" =>
              IF calls[w].kind = "worddb"
              THEN calls[w].got = NoWordIndex \/ calls[w].got \in CompleteWordIndices
              ELSE calls[w].got = NoIndex \/ calls[w].got \in CompleteIndices

\* one worker holds a filled index whose lemma variants are still sets while the
\* other is handed the published, complete index of another corpus
C19_Witness ==
    \E a, b \in Workers :
        /\ calls[a].pc = "finalize" /\ calls[a].idx.t = "partial"
        /\ calls[a].idx.v # EmptyDict
        /\ calls[b].pc = "read" /\ calls[b].kind = "offline"
        /\ calls[b].got \in CompleteIndices
        /\ calls[b].got = _kbbi_index
        /\ calls[a].files # partFiles

\* C20: once kbbi_reload has invalidated the offline index, a resolution that
\* starts afterwards reads an offline index whose corpus was read after that
\* invalidation, whatever builds were in flight
C20_ReloadVisibleToLaterResolutions ==
    \A w \in Workers :
        (calls[w].pc = "read" /\ calls[w].kind = "offline" /\ calls[w].got # NoIndex) =>
            calls[w].gotLoaded >= calls[w].start

\* C21: when requests of one client run at the same time, no admission is lost:
\* the requests let through with timestamps inside one window are never more
\* than the limit, and once no request is in flight every one of them has its
\* timestamp in the client's bucket
C21_NoAdmissionLost ==
    \A ip \in Clients :
        /\ Len(Recent(AdmittedOf(ip), now)) <= _RATE_LIMIT_MAX
        /\ (\A w \in Workers : calls[w].pc = "idle") =>
              Len(Recent(BucketOf(ip), now)) >= Len(Recent(AdmittedOf(ip), now))

\* the first half alone: never more than the limit let through in one window
C21_NeverMoreThanMax ==
    \A ip \in Clients : Len(Recent(AdmittedOf(ip), now)) <= _RATE_LIMIT_MAX

\* C22: kbbi_stats is introspection only: a call of it leaves the result cache,
\* the rate buckets, the offline index and the word-db index as they were
C22_StatsChangesNothing ==
    [][last'.op = "stats" =>
          UNCHANGED <<_KBBI_CACHE, _RATE_BUCKET, _kbbi_index, _KBBI_WORD_INDEX>>]_vars

\* what does hold: the cache and the buckets are left alone, and so is an index
\* that is built
C22_StatsKeepsCacheBucketsAndBuiltIndices ==
    [][last'.op = "stats" =>
          /\ UNCHANGED <<_KBBI_CACHE, _RATE_BUCKET>>
          /\ _kbbi_index # NoIndex => UNCHANGED _kbbi_index
          /\ _KBBI_WORD_INDEX # NoWordIndex => UNCHANGED _KBBI_WORD_INDEX]_vars


\* C23: once kbbi_reload() has returned, a request that arrives afterwards is not
\* served a cache hit whose payload was read from the index before that reload
\* invalidated it
C23_NoHitFromBeforeReload ==
    [][\A w \in Workers :
          (calls[w].pc = "cache" /\ calls'[w].pc = "idle") =>
              builds.cachedAt[_kbbi_normalize(calls[w].kata)] >= calls[w].seen]_vars

\* the cache never holds a payload read before the latest reload that has returned
C23_NoRecordFromBeforeReload ==
    \A k \in DOMAIN _KBBI_CACHE : k \in DOMAIN builds.cachedAt /\ builds.cachedAt[k] >= builds.returned

\* C24: every record of the cache holds a payload with valid = true and
\* cache_hit = false; the cache changes only when a lookup resolves (200, not a
\* cache hit), which stores exactly the payload it returns under the normalized
\* query, or when a reload empties it: not-found answers, rejected requests and
\* cache hits leave every record as it was
C24_CacheHoldsResolvedPayloadsOnly ==
    [][/\ \A k \in DOMAIN _KBBI_CACHE' :
             /\ _KBBI_CACHE'[k].payload.valid
             /\ ~_KBBI_CACHE'[k].payload.cache_hit
       /\ _KBBI_CACHE' # _KBBI_CACHE =>
             \/ last'.op = "reload" /\ _KBBI_CACHE' = EmptyDict
             \/ /\ last'.op = "cek"
                /\ last'.status = 200
                /\ ~last'.body.cache_hit
                /\ _KBBI_CACHE' = Put(_KBBI_CACHE, _kbbi_normalize(last'.kata),
                                      [t |-> "rec", ts |-> now, payload |-> last'.body])]_vars

\* a cache hit was served and the record it came from is still stored unflagged
C24_Witness ==
    /\ last.op = "cek"
    /\ last.status = 200
    /\ last.body.cache_hit
    /\ CacheGet(_kbbi_normalize(last.kata)) = last.c
    /\ ~last.c.payload.cache_hit
    /\ last.body = [last.c.payload EXCEPT !.cache_hit = TRUE]

\* a lookup was answered not-found, or was rejected, while the cache held a record
C24_WitnessNotStored ==
    /\ last.op = "cek"
    /\ last.status \in {400, 404, 429}
    /\ _KBBI_CACHE # EmptyDict
    /\ _kbbi_normalize(last.kata) \notin DOMAIN _KBBI_CACHE

\* rec has an embedded entry whose name normalizes to norm
HasLemma(rec, norm) ==
    /\ RecEntri(rec).t = "list"
    /\ \E i \in 1..Len(RecEntri(rec).v) :
          LET ent == RecEntri(rec).v[i]
              nama == IF ent.t = "dict" THEN Or2(get(ent, "nama"), get(ent, "lema")) ELSE None
          IN  nama.t = "str" /\ _kbbi_normalize(nama.v) = norm

\* the first record of the merged shards, in their order, that has the lemma
FirstLemmaRecord(raw, norm) ==
    LET js == {j \in 1..Len(raw) : HasLemma(raw[j][2], norm)}
    IN  IF js = {} THEN None ELSE raw[Min(js)][2]

\* C25: the word-db lookup returns the by_key record under the normalized key when
\* there is one, otherwise the first record in merge order with an embedded entry
\* whose normalized name equals the key, and misses only when neither mapping has
\* the key
C25_KeyRecordElseFirstLemmaRecord ==
    _KBBI_WORD_INDEX.t = "index" =>
        \A kata \in CorpusQueries :
            LET idx == _KBBI_WORD_INDEX
                norm == _kbbi_normalize(kata)
                rec == _kbbi_lookup_word_db(idx, kata)
            IN  /\ rec = IF DictHas(idx.by_key, norm) THEN DictGet(idx.by_key, norm)
                         ELSE FirstLemmaRecord(idx.raw, norm)
                /\ ~Truthy(rec) => ~DictHas(idx.by_key, norm) /\ ~DictHas(idx.by_lema, norm)

\* C25 as the code has it: the by_key record under the normalized key when there is
\* one that is not empty (neither null nor {}), otherwise the first record in merge
\* order with an embedded entry whose normalized name is not empty and equals the
\* key; a miss exactly when by_key holds no non-empty record under the key and
\* by_lema does not have the key
C25_NonEmptyKeyRecordElseFirstLemmaRecord ==
    _KBBI_WORD_INDEX.t = "index" =>
        \A kata \in CorpusQueries :
            LET idx == _KBBI_WORD_INDEX
                norm == _kbbi_normalize(kata)
                rec == _kbbi_lookup_word_db(idx, kata)
                k == DictGet(idx.by_key, norm)
            IN  /\ rec = IF Truthy(k) THEN k
                         ELSE IF norm # <<>> THEN FirstLemmaRecord(idx.raw, norm) ELSE None
                /\ ~Truthy(rec) <=> ~Truthy(k) /\ ~DictHas(idx.by_lema, norm)

\* a lookup was answered from the word-db with the record of a lemma while by_key
\* holds an empty record under the key
C25_Witness ==
    /\ last.op = "cek"
    /\ last.status = 200
    /\ last.body.sumber = "kbbi-worddb"
    /\ _KBBI_WORD_INDEX.t = "index"
    /\ DictHas(_KBBI_WORD_INDEX.by_key, _kbbi_normalize(last.kata))
    /\ ~Truthy(DictGet(_KBBI_WORD_INDEX.by_key, _kbbi_normalize(last.kata)))
    /\ last.body.definisi # <<>>

\* the strategies in their order, each with what it yields for the entry: the
\* stripped string of the field, <<>> when the field holds no string
NameStrategies(entry) ==
    LET text(x) == IF x.t = "str" THEN strip(x.v) ELSE <<>>
        raw_nama == get(entry, "nama")
        nested(kk) == IF raw_nama.t = "dict" THEN text(get(raw_nama, kk)) ELSE <<>>
    IN  << text(raw_nama), text(get(entry, "lema")), text(get(entry, "kata")),
           nested("text"), nested("value"), nested("nama") >>

\* what the first strategy that yields a non-empty string yields, <<>> when none does
FirstYield(ys) ==
    LET js == {j \in 1..Len(ys) : ys[j] # <<>>}
    IN  IF js = {} THEN <<>> ELSE ys[Min(js)]

\* C26: every ingested entry for which some strategy yields a non-empty string that
\* normalizes to a non-empty key is indexed under that key, with what the first such
\* strategy yields as a lemma variant; an entry is skipped only when no strategy
\* yields a non-empty string or the normalized lemma is empty
C26_FirstYieldingStrategyNamesEntry ==
    \A id \in CorpusPartIds :
        (_kbbi_index.t = "index" /\ _kbbi_index = PartsIndex[id]) =>
            LET entries == _kbbi_load_all_parts(Parts(id))
            IN  \A i \in 1..Len(entries) :
                    LET nama == FirstYield(NameStrategies(entries[i]))
                        key == _kbbi_normalize(nama)
                    IN  key # <<>> =>
                            /\ key \in DOMAIN _kbbi_index.v
                            /\ Contains(_kbbi_index.v[key].lema, nama)

\* the entries the builder names are named by the first yielding strategy
C26_IndexedEntriesNamedByFirstYield ==
    \A id \in CorpusPartIds :
        (_kbbi_index.t = "index" /\ _kbbi_index = PartsIndex[id]) =>
            LET entries == _kbbi_load_all_parts(Parts(id))
            IN  \A i \in 1..Len(entries) :
                    EntryNama(entries[i]) \in {<<>>, FirstYield(NameStrategies(entries[i]))}

\* the structured records that sit in an entri/entries list of obj, each with its
\* place in the document; under: a wrapper key lies on the way to obj
RECURSIVE WrappedRecords(_, _, _)
WrappedRecords(obj, path, under) ==
    IF obj.t = "dict"
    THEN UNION {LET k == obj.v[j][1]
                    v == obj.v[j][2]
                IN  (IF under /\ k \in Range(ContainerKeys) /\ v.t = "list"
                     THEN {<<path \o <<j, i>>, v.v[i]>> : i \in {n \in 1..Len(v.v) : v.v[n].t = "dict"}}
                     ELSE {})
                    \cup WrappedRecords(v, path \o <<j>>, under \/ k \in Range(WrapperKeys))
                : j \in 1..Len(obj.v)}
    ELSE IF obj.t = "list"
    THEN UNION {WrappedRecords(obj.v[i], path \o <<i>>, under) : i \in 1..Len(obj.v)}
    ELSE {}

\* the same for the documents of the readable files
WrappedRecordsOf(files) ==
    UNION {UNION {WrappedRecords(files[p].docs[d], <<p, d>>, FALSE) :
                     d \in 1..Len(files[p].docs)} :
              p \in {q \in 1..Len(files) : files[q].readable}}

\* C27: the value of every wrapper key (data, daftar, list, result, results) is
\* recursed into: each structured record in an entri/entries list beneath a wrapper
\* key, at any depth, is in the ingested entry list exactly once
C27_WrappedRecordsIngestedOnce ==
    \A id \in CorpusPartIds :
        (_kbbi_index.t = "index" /\ _kbbi_index = PartsIndex[id]) =>
            LET entries == _kbbi_load_all_parts(Parts(id))
            IN  \A r \in WrappedRecordsOf(Parts(id)) :
                    Cardinality({n \in 1..Len(entries) : entries[n] = r[2]}) = 1

\* no ingested entry list holds one object twice
C27_NoRecordIngestedTwice ==
    \A id \in CorpusPartIds :
        (_kbbi_index.t = "index" /\ _kbbi_index = PartsIndex[id]) =>
            LET entries == _kbbi_load_all_parts(Parts(id))
            IN  \A r \in WrappedRecordsOf(Parts(id)) :
                    Cardinality({n \in 1..Len(entries) : entries[n] = r[2]}) <= 1

\* C28: the built-in source matches by exact normalized key: a lookup that reaches
\* it is answered by it exactly when what the normalizer gives for the query is a
\* key of the built-in corpus, so two queries with one normalized key get the same
\* answer from it
C28_BuiltinMatchesNormalizedKey ==
    (last.op = "cek" /\ Contains(last.consulted, "simple")) =>
        ((last.status = 200 /\ last.body.sumber = "kbbi-simple")
            <=> _kbbi_normalize(last.kata) \in DOMAIN KBBI_DATA)

\* the built-in source answers exactly the queries that its own normalize_kata
\* (lower case, stripped) turns into a key of its corpus
C28_BuiltinMatchesOwnNormalization ==
    (last.op = "cek" /\ Contains(last.consulted, "simple")) =>
        ((last.status = 200 /\ last.body.sumber = "kbbi-simple")
            <=> normalize_kata(last.kata) \in DOMAIN KBBI_DATA)

C30_ReloadKeepsWordIndexBuiltOnce ==
    [][\A w \in Workers :
          /\ (calls[w].kind = "reload" /\ calls'[w] # calls[w]) =>
                UNCHANGED <<_KBBI_WORD_INDEX, _RATE_BUCKET>>
          /\ (calls[w].kind = "worddb" /\ calls[w].pc = "publish" /\ calls'[w].pc = "return") =>
                _KBBI_WORD_INDEX = NoWordIndex]_vars

\* with one request at a time: a reload leaves the word-db index and the buckets
\* as they were, and no operation changes a word-db index that is built
C30_ReloadFrameOneAtATime ==
    [][/\ last'.op = "reload" => UNCHANGED <<_KBBI_WORD_INDEX, _RATE_BUCKET>>
       /\ _KBBI_WORD_INDEX # NoWordIndex => UNCHANGED _KBBI_WORD_INDEX]_vars

====
